---- MODULE Spec2Model ----
(***************************************************************************)
(* Network-Discovery-Tool: the ScannerManager (device registry, capture    *)
(* loop lifecycle, notification callbacks) of src/scanner/manager.py and   *)
(* the Device / BaseScanner types of src/scanner/base.py.                  *)
(*                                                                         *)
(* Execution contexts: the consumer (the UI / main thread, id UI) and the  *)
(* capture threads 1..MaxThreads created by start().  Device objects live  *)
(* in a heap and are referred to by their index, so that sharing of a      *)
(* record between the registry and a consumer is visible.                  *)
(***************************************************************************)
EXTENDS Integers, Sequences, FiniteSets, TLC

\* ---- bounds -------------------------------------------------------------
MaxThreads == 2    \* capture threads that can exist at the same time
MaxObjs == 2       \* Device objects constructed during a run

\* ---- identities of the execution contexts -------------------------------
NoOwner == -1
UI == 0
Threads == 1..MaxThreads

VARIABLES
  scanners,      \* ScannerManager._scanners: registered scanners, in order
  devices,       \* ScannerManager._devices: insertion-ordered dict, key -> object
  heap,          \* the Device objects constructed so far
  lock,          \* ScannerManager._lock: re-entrant lock [owner, count]
  sniff_thread,  \* ScannerManager._sniff_thread: 0 (None) or a thread id
  running,       \* ScannerManager._running
  cbNew,         \* _on_device_callback is set
  cbUpd,         \* _on_device_update_callback is set
  thr,           \* the capture threads: position, scanner index, decoded device
  now,           \* the clock read by datetime.now()
  uipc,          \* position of the consumer: "idle" or "join" (inside stop())
  ret,           \* what the consumer's last call returned
  obs,           \* what the consumer has read, since that call, from a Device of ret
  mergeLog,      \* history: the _on_device_discovered calls since the last clear
  notifyLog      \* history: the notification callbacks invoked since the last clear

vars == <<scanners, devices, heap, lock, sniff_thread, running, cbNew, cbUpd,
          thr, now, uipc, ret, obs, mergeLog, notifyLog>>

\* ---- strings as sequences of characters ---------------------------------
LowerChars == <<"a","b","c","d","e","f","g","h","i","j","k","l","m",
                "n","o","p","q","r","s","t","u","v","w","x","y","z">>
UpperChars == <<"A","B","C","D","E","F","G","H","I","J","K","L","M",
                "N","O","P","Q","R","S","T","U","V","W","X","Y","Z">>

\* str.upper() on one character
UpperOf == [c \in {LowerChars[i] : i \in 1..26} |->
              UpperChars[CHOOSE i \in 1..26 : LowerChars[i] = c]]
UpperChar(c) == IF c \in DOMAIN UpperOf THEN UpperOf[c] ELSE c

\* str.upper()
Upper(s) == [i \in 1..Len(s) |-> UpperChar(s[i])]

\* ---- Device --------------------------------------------------------------
MacUpper == <<"A","A",":","0","1">>
MacLower == <<"a","a",":","0","1">>
MacOther == <<"B","B",":","0","2">>

\* the field values a scanner's parse_packet can put in a Device
DeviceInputs ==
  { [brand |-> "Ubiquiti", ip |-> "10.0.0.1", mac |-> MacUpper, name |-> "AP1",
     model |-> "NSM5", firmware |-> "v1", uptime |-> 3600],
    [brand |-> "Mikrotik", ip |-> "10.0.0.2", mac |-> MacLower, name |-> "AP2",
     model |-> "RB951", firmware |-> "v2", uptime |-> 60],
    [brand |-> "Mikrotik", ip |-> "10.0.0.2", mac |-> MacOther, name |-> "AP3",
     model |-> "RB951", firmware |-> "v2", uptime |-> 0] }

\* datetime.now(): the clock does not run backwards, and a reading is later
\* than the reading before it (t) by at least the clock's resolution
NowAfter(t) == { t + 1 }

\* mutant of NewDevice: the two timestamps are taken in the other order
NewDeviceSwapped(f, d, l) ==
  [brand |-> f.brand, ip |-> f.ip, mac |-> f.mac, name |-> f.name,
   model |-> f.model, firmware |-> f.firmware, uptime |-> f.uptime,
   discovered_at |-> l, last_seen |-> d]

\* Device(...): the dataclass constructor; discovered_at and last_seen come
\* from two successive readings d, l of the clock
NewDevice(f, d, l) ==
  [brand |-> f.brand, ip |-> f.ip, mac |-> f.mac, name |-> f.name,
   model |-> f.model, firmware |-> f.firmware, uptime |-> f.uptime,
   discovered_at |-> d, last_seen |-> l]

\* mutant of unique_id: the key is the MAC as decoded, not upper-cased
unique_id_as_decoded(dev) == dev.mac

\* Device.unique_id
unique_id(dev) == Upper(dev.mac)

\* Device.update_last_seen, t the reading of the clock
update_last_seen(dev, t) == [dev EXCEPT !.last_seen = t]

\* ---- the insertion-ordered dict _devices ---------------------------------
Keys(d) == { d[i].key : i \in 1..Len(d) }
Lookup(d, k) == d[CHOOSE i \in 1..Len(d) : d[i].key = k].obj
Values(d) == [i \in 1..Len(d) |-> d[i].obj]
Stored == { devices[i].obj : i \in 1..Len(devices) }

\* mutant of dict_set: the dict is replaced by one that holds only the new key
dict_set_alone(d, k, o) == <<[key |-> k, obj |-> o]>>

\* d[k] = o for a key k that d does not hold
dict_set(d, k, o) == Append(d, [key |-> k, obj |-> o])

\* ---- the re-entrant lock -------------------------------------------------
\* mutant of CanAcquire: a threading.Lock, which its owner cannot take again
CanAcquirePlain(lk, who) == lk.owner = NoOwner

\* mutant of CanAcquire: the lock keeps nobody out
CanAcquireAlways(lk, who) == TRUE

\* threading.RLock: free, or held by the thread that asks for it
CanAcquire(lk, who) == lk.owner = NoOwner \/ lk.owner = who
Acquire(lk, who) == [owner |-> who, count |-> lk.count + 1]
Release(lk) ==
  IF lk.count = 1 THEN [owner |-> NoOwner, count |-> 0]
  ELSE [lk EXCEPT !.count = lk.count - 1]

\* ---- threads -------------------------------------------------------------
\* a thread that is not running: never started ("unborn"), ended by the stop
\* filter ("done"), ended by a caught capture error ("failed"), ended by an
\* exception that left _sniff_loop ("crashed")
NoReturn == [op |-> "none", alias |-> FALSE, items |-> <<>>, n |-> 0]

\* no frame; also a frame whose content is left open (Spec)
NoFrame == [ip |-> FALSE, udp |-> FALSE, sport |-> 0, dport |-> 0, load |-> FALSE]

\* a thread at pc that is not handling a frame: i the scanner of
\* _packet_handler's loop, dev the decoded Device, existing and call the locals
\* of _on_device_discovered, frame the packet being routed, log what the
\* scanners before i did with it, got what a query made by the notification
\* callback returned, filter the filter_expr of _sniff_loop ("" where the
\* filter is not followed)
At(pc) == [pc |-> pc, i |-> 0, dev |-> 0, existing |-> 0, call |-> 0,
           frame |-> NoFrame, log |-> <<>>, got |-> NoReturn, filter |-> ""]
Ended(pc) == At(pc)
Unborn == Ended("unborn")
\* Thread.is_alive
IsAlive(t) == thr[t].pc \notin {"unborn", "done", "failed", "crashed"}
Live == { t \in Threads : IsAlive(t) }

Init ==
  /\ scanners = <<>>
  /\ devices = <<>>
  /\ heap = <<>>
  /\ lock = [owner |-> NoOwner, count |-> 0]
  /\ sniff_thread = 0
  /\ running = FALSE
  /\ cbNew = FALSE
  /\ cbUpd = FALSE
  /\ thr = [t \in Threads |-> Unborn]
  /\ now = 0
  /\ uipc = "idle"
  /\ ret = NoReturn
  /\ obs = <<>>
  /\ mergeLog = <<>>
  /\ notifyLog = <<>>

\* ---- the consumer's calls ------------------------------------------------
ScannerKinds == {"ubnt", "mndp"}
MaxScanners == 1

\* ScannerManager.register_scanner
register_scanner(s) ==
  /\ uipc = "idle"
  /\ Len(scanners) < MaxScanners
  /\ scanners' = Append(scanners, s)
  /\ ret' = NoReturn
  /\ obs' = <<>>
  /\ UNCHANGED <<devices, heap, lock, sniff_thread, running, cbNew, cbUpd, thr,
                 now, uipc, mergeLog, notifyLog>>

\* ScannerManager.set_on_device_discovered
set_on_device_discovered ==
  /\ uipc = "idle"
  /\ ~cbNew
  /\ cbNew' = TRUE
  /\ ret' = NoReturn
  /\ obs' = <<>>
  /\ UNCHANGED <<scanners, devices, heap, lock, sniff_thread, running, cbUpd, thr,
                 now, uipc, mergeLog, notifyLog>>

\* ScannerManager.set_on_device_updated
set_on_device_updated ==
  /\ uipc = "idle"
  /\ ~cbUpd
  /\ cbUpd' = TRUE
  /\ ret' = NoReturn
  /\ obs' = <<>>
  /\ UNCHANGED <<scanners, devices, heap, lock, sniff_thread, running, cbNew, thr,
                 now, uipc, mergeLog, notifyLog>>

\* ScannerManager.is_running
is_running == running

\* the thread object start() creates: the lowest identity not in use
FreeThread == CHOOSE t \in Threads : ~IsAlive(t) /\ \A u \in Threads : ~IsAlive(u) => t <= u

\* mutant of already_running: start() without the test of the flag
never_already_running(r) == FALSE

\* start's `if self._running`
already_running(r) == r

\* ScannerManager.start; the "Already running" message is what the caller
\* gets to see of the branch taken
start ==
  /\ uipc = "idle"
  /\ IF already_running(running)
     THEN /\ ret' = [NoReturn EXCEPT !.op = "already running"]
          /\ UNCHANGED <<running, sniff_thread, thr>>
     ELSE /\ \E t \in Threads : ~IsAlive(t)
          /\ running' = TRUE
          /\ sniff_thread' = FreeThread
          /\ thr' = [thr EXCEPT ![FreeThread] = [Unborn EXCEPT !.pc = "sniff"]]
          /\ ret' = NoReturn
  /\ obs' = <<>>
  /\ UNCHANGED <<scanners, devices, heap, lock, cbNew, cbUpd, now, uipc,
                 mergeLog, notifyLog>>

\* ScannerManager.stop, up to the join: the flag is cleared, and the caller
\* waits only if there is a thread and it is alive.  (A call is taken only
\* while a thread identity stays free for the start() that may follow.)
stop ==
  /\ uipc = "idle"
  /\ Cardinality(Live) < MaxThreads
  /\ running' = FALSE
  /\ IF sniff_thread # 0 /\ IsAlive(sniff_thread)
     THEN uipc' = "join"
     ELSE uipc' = "idle"
  /\ ret' = NoReturn
  /\ obs' = <<>>
  /\ UNCHANGED <<scanners, devices, heap, lock, sniff_thread, cbNew, cbUpd, thr,
                 now, mergeLog, notifyLog>>

\* mutant of JoinReturns: join() without a timeout
JoinWithoutTimeout(alive, timedOut) == ~alive

\* Thread.join(timeout=2.0) returns when the thread has ended or when the
\* timeout has elapsed
JoinReturns(alive, timedOut) == ~alive \/ timedOut

\* ScannerManager.stop, the return from the join
stop_join ==
  /\ uipc = "join"
  /\ \E timedOut \in BOOLEAN : JoinReturns(IsAlive(sniff_thread), timedOut)
  /\ uipc' = "idle"
  /\ ret' = NoReturn
  /\ obs' = <<>>
  /\ UNCHANGED <<scanners, devices, heap, lock, sniff_thread, running, cbNew, cbUpd,
                 thr, now, mergeLog, notifyLog>>

\* mutant of get_devices_value: the live values of the dict are returned
get_devices_live(d) == [op |-> "get_devices", alias |-> TRUE, items |-> Values(d), n |-> 0]

\* what get_devices returns: list(self._devices.values()), a new list (alias
\* FALSE: it is not the dict's own structure) that holds the stored Device
\* objects themselves
get_devices_value(d) == [op |-> "get_devices", alias |-> FALSE, items |-> Values(d), n |-> 0]

\* ScannerManager.get_devices
get_devices ==
  /\ uipc = "idle"
  /\ CanAcquire(lock, UI)
  /\ ret' = get_devices_value(devices)
  /\ obs' = <<>>
  /\ UNCHANGED <<scanners, devices, heap, lock, sniff_thread, running, cbNew, cbUpd,
                 thr, now, uipc, mergeLog, notifyLog>>

\* what get_device_count returns: len(self._devices)
get_device_count_value(d) == Len(d)

\* ScannerManager.get_device_count
get_device_count ==
  /\ uipc = "idle"
  /\ CanAcquire(lock, UI)
  /\ ret' = [op |-> "get_device_count", alias |-> FALSE, items |-> <<>>,
             n |-> get_device_count_value(devices)]
  /\ obs' = <<>>
  /\ UNCHANGED <<scanners, devices, heap, lock, sniff_thread, running, cbNew, cbUpd,
                 thr, now, uipc, mergeLog, notifyLog>>

\* ScannerManager.clear_devices
clear_devices ==
  /\ uipc = "idle"
  /\ CanAcquire(lock, UI)
  /\ devices' = <<>>
  /\ mergeLog' = <<>>
  /\ notifyLog' = <<>>
  /\ ret' = NoReturn
  /\ obs' = <<>>
  /\ UNCHANGED <<scanners, heap, lock, sniff_thread, running, cbNew, cbUpd, thr,
                 now, uipc>>

\* the elements of a value get_devices returned
ItemsOf(r) == IF r.alias THEN Values(devices) ELSE r.items

\* the consumer reads last_seen and ip of a Device it got from get_devices
\* (the dashboard shows device.ip, src/ui/dashboard.py:182); no lock is taken
ReadDevice ==
  /\ uipc = "idle"
  /\ ret.op = "get_devices"
  /\ \E i \in 1..Len(ItemsOf(ret)) :
       obs' = [obj |-> ItemsOf(ret)[i], last_seen |-> heap[ItemsOf(ret)[i]].last_seen,
               ip |-> heap[ItemsOf(ret)[i]].ip]
  /\ UNCHANGED <<scanners, devices, heap, lock, sniff_thread, running, cbNew, cbUpd,
                 thr, now, uipc, ret, mergeLog, notifyLog>>

\* ---- the capture loop (one per thread) ------------------------------------
\* the exceptions sniff() can raise, and which of them are Exception subclasses
CaptureErrors == {"PermissionError", "OSError"}
ExceptionSubclasses == {"PermissionError", "OSError"}

\* mutant of SniffLoopCatches: only the PermissionError clause
SniffLoopCatchesPermissionOnly(exc) == exc = "PermissionError"

\* the except clauses of _sniff_loop: PermissionError, then Exception
SniffLoopCatches(exc) == exc = "PermissionError" \/ exc \in ExceptionSubclasses

\* sniff() raises while it opens the capture or waits for a frame; _sniff_loop
\* catches the exception, logs it and returns
SniffRaises(t, exc) ==
  /\ thr[t].pc = "sniff"
  /\ thr' = [thr EXCEPT ![t] = IF SniffLoopCatches(exc) THEN Ended("failed")
                                ELSE Ended("crashed")]
  /\ UNCHANGED <<scanners, devices, heap, lock, sniff_thread, running, cbNew, cbUpd,
                 now, uipc, ret, obs, mergeLog, notifyLog>>

\* thread th after scanner th.i of _packet_handler's loop has handled the
\* frame with the given outcome: the next scanner gets the same frame; after
\* the last one prn returns and sniff() evaluates stop_filter
AfterScanner(th, outcome) ==
  IF th.i < Len(scanners)
  THEN [At("prn") EXCEPT !.i = th.i + 1, !.frame = th.frame,
                         !.log = Append(th.log, outcome), !.filter = th.filter]
  ELSE [At("stop_filter") EXCEPT !.filter = th.filter]

\* thread th when prn = _packet_handler is called with a frame: the loop
\* over _scanners starts with the first one
RouteFrom(th, frame) ==
  IF Len(scanners) > 0
  THEN [At("prn") EXCEPT !.i = 1, !.frame = frame, !.filter = th.filter]
  ELSE [At("stop_filter") EXCEPT !.filter = th.filter]

\* sniff() captures a frame and calls prn = _packet_handler
FrameArrives(t) ==
  /\ thr[t].pc = "sniff"
  /\ thr' = [thr EXCEPT ![t] = RouteFrom(thr[t], NoFrame)]
  /\ UNCHANGED <<scanners, devices, heap, lock, sniff_thread, running, cbNew, cbUpd,
                 now, uipc, ret, obs, mergeLog, notifyLog>>

\* mutant of handle_packet_catches: no try block around parse_packet
handle_packet_reraises == FALSE

\* handle_packet's `except Exception` around parse_packet and the callback
handle_packet_catches == TRUE

\* BaseScanner.handle_packet when parse_packet returns None or raises: the
\* frame is skipped (an exception is caught and logged; uncaught, it would
\* leave prn and sniff() and end the loop in _sniff_loop's except clause)
HandlePacketSkip(t, outcome) ==
  /\ thr[t].pc = "prn"
  /\ outcome \in {"None", "raise"}
  /\ thr' = [thr EXCEPT ![t] = IF outcome = "raise" /\ ~handle_packet_catches
                                THEN Ended("failed")
                                ELSE AfterScanner(thr[t], outcome)]
  /\ UNCHANGED <<scanners, devices, heap, lock, sniff_thread, running, cbNew, cbUpd,
                 now, uipc, ret, obs, mergeLog, notifyLog>>

\* BaseScanner.handle_packet when parse_packet returns a Device: the object
\* is constructed (two readings of the clock) and the callback set by
\* register_scanner, _on_device_discovered, is called with it
HandlePacketDevice(t, f) ==
  /\ thr[t].pc = "prn"
  /\ Len(heap) < MaxObjs
  /\ \E d \in NowAfter(now) : \E l \in NowAfter(d) :
       /\ heap' = Append(heap, NewDevice(f, d, l))
       /\ now' = l
  /\ thr' = [thr EXCEPT ![t].pc = "enter", ![t].dev = Len(heap) + 1]
  /\ UNCHANGED <<scanners, devices, lock, sniff_thread, running, cbNew, cbUpd,
                 uipc, ret, obs, mergeLog, notifyLog>>

\* mutant of CallbackInsideWith: the callbacks are called after the block
CallbackAfterWith == FALSE

\* the callbacks are called inside the `with self._lock` block
CallbackInsideWith == TRUE

\* mutant of Notification: the two kinds are taken for each other
NotificationKindsSwapped(present, existing, device) ==
  IF present THEN [kind |-> "new", arg |-> existing]
  ELSE [kind |-> "updated", arg |-> device]

\* mutant of Notification: every sighting is announced as a new device
NotificationAlwaysNew(present, existing, device) == [kind |-> "new", arg |-> device]

\* which notification a call makes: [kind, arg]
Notification(present, existing, device) ==
  IF present THEN [kind |-> "updated", arg |-> existing]
  ELSE [kind |-> "new", arg |-> device]

\* the callback attribute tested before the call
Registered(kind) == IF kind = "new" THEN cbNew ELSE cbUpd

\* a Device object nothing refers to any more
Freed == [brand |-> "", ip |-> "", mac |-> <<>>, name |-> "", model |-> "",
          firmware |-> "", uptime |-> 0, discovered_at |-> 0, last_seen |-> 0]

\* the freshly decoded Device of a repeat sighting is dropped when
\* _on_device_discovered returns
Drop(h, device, existing) == IF existing # 0 THEN [h EXCEPT ![device] = Freed] ELSE h

\* _on_device_discovered, the end: the notification callback is called if it
\* is set (the thread is then inside it); if it is not set the with block ends
\* and handle_packet returns.  call is the number of this call in mergeLog,
\* existing the stored object (0 for a new device), h and lk the heap and the
\* lock after the writes of this step.
Notify(t, call, existing, h, lk) ==
  LET n == Notification(existing # 0, existing, thr[t].dev)
  IN IF Registered(n.kind)
     THEN /\ notifyLog' = Append(notifyLog, [kind |-> n.kind, arg |-> n.arg, call |-> call])
          /\ thr' = [thr EXCEPT ![t].pc = "in_cb", ![t].existing = existing,
                                ![t].call = call]
          /\ lock' = IF CallbackInsideWith THEN lk ELSE Release(lk)
          /\ heap' = h
     ELSE /\ thr' = [thr EXCEPT ![t] = AfterScanner(thr[t], "device")]
          /\ lock' = Release(lk)
          /\ heap' = Drop(h, thr[t].dev, existing)
          /\ UNCHANGED notifyLog

\* history: what a call of _on_device_discovered was given (mac, ip and
\* discovered_at of the decoded Device), whether a record of that MAC was
\* stored, the record the registry holds for it after the call (obj), and
\* that record's ip and last_seen before and its last_seen after the call;
\* h is the heap after the call's first write
Sighting(device, h) ==
  LET present == \E i \in 1..Len(devices) : devices[i].key = Upper(heap[device].mac)
      obj == IF present
             THEN devices[CHOOSE i \in 1..Len(devices) :
                            devices[i].key = Upper(heap[device].mac)].obj
             ELSE device
  IN [present |-> present, mac |-> heap[device].mac, ip |-> heap[device].ip,
      at |-> heap[device].discovered_at, obj |-> obj, old_ip |-> heap[obj].ip,
      old_seen |-> heap[obj].last_seen, new_seen |-> h[obj].last_seen]

\* _on_device_discovered, from `with self._lock` on.  The key is looked up; a
\* known device gets its last_seen updated (the ip is written in the next
\* step); a new one is inserted and the new-device notification is made.
OnDiscoveredEnter(t) ==
  /\ thr[t].pc = "enter"
  /\ CanAcquire(lock, t)
  /\ LET device == thr[t].dev
         uid == unique_id(heap[device])
     IN /\ IF uid \in Keys(devices)
           THEN LET existing == Lookup(devices, uid)
                IN /\ \E tn \in NowAfter(now) :
                        /\ heap' = [heap EXCEPT ![existing] = update_last_seen(@, tn)]
                        /\ now' = tn
                   /\ thr' = [thr EXCEPT ![t].pc = "upd_ip", ![t].existing = existing,
                                         ![t].call = Len(mergeLog) + 1]
                   /\ lock' = Acquire(lock, t)
                   /\ UNCHANGED <<devices, notifyLog>>
           ELSE /\ devices' = dict_set(devices, uid, device)
                /\ Notify(t, Len(mergeLog) + 1, 0, heap, Acquire(lock, t))
                /\ UNCHANGED now
        /\ mergeLog' = Append(mergeLog, Sighting(device, heap'))
  /\ UNCHANGED <<scanners, sniff_thread, running, cbNew, cbUpd, uipc, ret, obs>>

\* mutant of update_ip: the stored record takes every decoded field
update_fields(existing, device) ==
  [device EXCEPT !.discovered_at = existing.discovered_at,
                 !.last_seen = existing.last_seen]

\* `if existing.ip != device.ip: existing.ip = device.ip`, on the records
update_ip(existing, device) ==
  IF existing.ip # device.ip THEN [existing EXCEPT !.ip = device.ip] ELSE existing

\* _on_device_discovered, known device: the ip is updated, then the
\* device-updated notification is made
OnDiscoveredIp(t) ==
  /\ thr[t].pc = "upd_ip"
  /\ LET existing == thr[t].existing
         device == thr[t].dev
     IN Notify(t, thr[t].call, existing,
               [heap EXCEPT ![existing] = update_ip(heap[existing], heap[device])],
               lock)
  /\ UNCHANGED <<scanners, devices, sniff_thread, running, cbNew, cbUpd, now,
                 uipc, ret, obs, mergeLog>>

\* the notification callback returns; the with block ends; handle_packet returns
CallbackReturns(t) ==
  /\ thr[t].pc = "in_cb"
  /\ lock' = IF CallbackInsideWith THEN Release(lock) ELSE lock
  /\ heap' = Drop(heap, thr[t].dev, thr[t].existing)
  /\ thr' = [thr EXCEPT ![t] = AfterScanner(thr[t], "device")]
  /\ UNCHANGED <<scanners, devices, sniff_thread, running, cbNew, cbUpd, now,
                 uipc, ret, obs, mergeLog, notifyLog>>

\* mutant of stop_filter: a predicate that never stops the capture
stop_filter_never(r) == FALSE

\* stop_filter = lambda _: not self._running
stop_filter(r) == ~r

\* sniff() evaluates stop_filter after prn has returned: the capture ends,
\* or sniff() waits for the next frame
StopFilter(t) ==
  /\ thr[t].pc = "stop_filter"
  /\ thr' = [thr EXCEPT ![t] = IF stop_filter(running) THEN Ended("done")
                                ELSE [thr[t] EXCEPT !.pc = "sniff"]]
  /\ UNCHANGED <<scanners, devices, heap, lock, sniff_thread, running, cbNew, cbUpd,
                 now, uipc, ret, obs, mergeLog, notifyLog>>

\* ---- the program ----------------------------------------------------------
Consumer ==
  \/ \E s \in ScannerKinds : register_scanner(s)
  \/ set_on_device_discovered
  \/ set_on_device_updated
  \/ start
  \/ stop
  \/ stop_join
  \/ get_devices
  \/ get_device_count
  \/ clear_devices
  \/ ReadDevice

Capture(t) ==
  \/ \E exc \in CaptureErrors : SniffRaises(t, exc)
  \/ FrameArrives(t)
  \/ \E o \in {"None", "raise"} : HandlePacketSkip(t, o)
  \/ \E f \in DeviceInputs : HandlePacketDevice(t, f)
  \/ OnDiscoveredEnter(t)
  \/ OnDiscoveredIp(t)
  \/ CallbackReturns(t)
  \/ StopFilter(t)

Next == Consumer \/ \E t \in Threads : Capture(t)

Spec == Init /\ [][Next]_vars

\* ---- the life cycle of the capture loop, with scheduling -------------------
\* the consumer's calls that set up, start and stop the capture
Lifecycle ==
  \/ \E s \in ScannerKinds : register_scanner(s)
  \/ set_on_device_discovered
  \/ start
  \/ stop
  \/ stop_join

NextLifecycle == Lifecycle \/ \E t \in Threads : Capture(t)

\* the capture threads are scheduled, and frames keep arriving: a step that
\* a capture thread can take is taken
SpecFair == Init /\ [][NextLifecycle]_vars /\ \A t \in Threads : WF_vars(Capture(t))

\* ---- a consumer that changes what get_devices returned --------------------
\* the caller removes the last element of the returned list
MutateReturnedList ==
  /\ uipc = "idle"
  /\ ret.op = "get_devices"
  /\ Len(ItemsOf(ret)) > 0
  /\ IF ret.alias
     THEN /\ devices' = SubSeq(devices, 1, Len(devices) - 1)
          /\ ret' = [ret EXCEPT !.op = "get_devices, changed"]
     ELSE /\ ret' = [ret EXCEPT !.op = "get_devices, changed",
                                !.items = SubSeq(ret.items, 1, Len(ret.items) - 1)]
          /\ UNCHANGED devices
  /\ obs' = <<>>
  /\ UNCHANGED <<scanners, heap, lock, sniff_thread, running, cbNew, cbUpd, thr, now,
                 uipc, mergeLog, notifyLog>>

\* the caller assigns to the name of a Device of the returned list
MutateReturnedDevice ==
  /\ uipc = "idle"
  /\ ret.op = "get_devices"
  /\ \E i \in 1..Len(ItemsOf(ret)) :
       /\ heap[ItemsOf(ret)[i]].name # "renamed"
       /\ heap' = [heap EXCEPT ![ItemsOf(ret)[i]].name = "renamed"]
  /\ ret' = [ret EXCEPT !.op = "device changed"]
  /\ obs' = <<>>
  /\ UNCHANGED <<scanners, devices, lock, sniff_thread, running, cbNew, cbUpd, thr,
                 now, uipc, mergeLog, notifyLog>>

NextAlias == Next \/ MutateReturnedList \/ MutateReturnedDevice

SpecAlias == Init /\ [][NextAlias]_vars

\* ---- routing of frames with content ---------------------------------------
\* Spec leaves the content of a frame open: after any frame parse_packet can
\* return None, raise or return a Device.  Here a frame has its layers and
\* ports, and the scanners' port checks decide what parse_packet can do.
MaxRouted == 2     \* scanners registered when the capture loop starts

UbntPort == 10001
MndpPort == 5678

\* BaseScanner.port
port(s) == IF s = "ubnt" THEN UbntPort ELSE MndpPort

\* the captured packets: without a UDP layer, UDP over something else than
\* IP, and IP/UDP with the ports of the scanners or another one, with or
\* without a payload
Frames ==
  { NoFrame,
    [ip |-> TRUE, udp |-> FALSE, sport |-> 0, dport |-> 0, load |-> FALSE],
    [ip |-> FALSE, udp |-> TRUE, sport |-> UbntPort, dport |-> UbntPort, load |-> TRUE] }
  \cup [ip : {TRUE}, udp : {TRUE}, sport : {UbntPort, MndpPort, 53},
        dport : {UbntPort, MndpPort, 53}, load : BOOLEAN]

\* mutant of PortMatches: both ports must be the scanner's
PortMatchesBoth(s, f) == ~(f.sport # port(s) \/ f.dport # port(s))

\* parse_packet's port check: `not (sport != self.port and dport != self.port)`
PortMatches(s, f) == ~(f.sport # port(s) /\ f.dport # port(s))

\* what parse_packet of scanner s can do with frame f: the layer, port and
\* payload checks return None; a payload that passes them goes to the TLV
\* decoder, whose result (None or a Device) depends on the bytes; "raise" is
\* a parse_packet that raises, which handle_packet provides for
parse_packet(s, f) ==
  IF ~f.ip \/ ~f.udp THEN {"None"}
  ELSE IF ~PortMatches(s, f) THEN {"None"}
  ELSE IF ~f.load THEN {"None"}
  ELSE {"None", "raise", "device"}

\* the Devices scanner s can construct: UbiquitiScanner's have its brand,
\* MNDPScanner's the brand _detect_brand finds
DevicesOf(s) == { d \in DeviceInputs : (d.brand = "Ubiquiti") <=> (s = "ubnt") }

\* str(s.port)
str(n) == ToString(n)

\* sep.join(xs)
RECURSIVE join(_, _)
join(sep, xs) ==
  IF Len(xs) = 0 THEN ""
  ELSE IF Len(xs) = 1 THEN xs[1]
  ELSE xs[1] \o sep \o join(sep, Tail(xs))

\* mutant of PortSeparator: the ports are joined by "and"
PortSeparatorAnd == " and port "

\* the separator of _build_filter's join
PortSeparator == " or port "

\* ScannerManager._build_filter
build_filter(ss) ==
  LET ports == [i \in 1..Len(ss) |-> str(port(ss[i]))]
  IN IF Len(ports) = 0 THEN "udp"
     ELSE "udp and (port " \o join(PortSeparator, ports) \o ")"

\* _sniff_loop, up to the call of sniff(): the filter is built from the
\* scanners registered at that moment.  (Spec takes the start of the thread
\* and this step as one and does not follow the filter.)
SniffLoopBegins(t) ==
  /\ thr[t].pc = "loop"
  /\ thr' = [thr EXCEPT ![t] = [At("sniff") EXCEPT !.filter = build_filter(scanners)]]
  /\ UNCHANGED <<scanners, devices, heap, lock, sniff_thread, running, cbNew, cbUpd,
                 now, uipc, ret, obs, mergeLog, notifyLog>>

\* sniff() captures frame f and calls prn = _packet_handler
RouteFrameArrives(t, f) ==
  /\ thr[t].pc = "sniff"
  /\ thr' = [thr EXCEPT ![t] = RouteFrom(thr[t], f)]
  /\ UNCHANGED <<scanners, devices, heap, lock, sniff_thread, running, cbNew, cbUpd,
                 now, uipc, ret, obs, mergeLog, notifyLog>>

\* handle_packet of the scanner at hand: parse_packet returns None or raises
RouteSkip(t, outcome) ==
  /\ thr[t].pc = "prn"
  /\ outcome \in parse_packet(scanners[thr[t].i], thr[t].frame)
  /\ HandlePacketSkip(t, outcome)

\* handle_packet of the scanner at hand: parse_packet returns a Device
RouteDevice(t, d) ==
  /\ thr[t].pc = "prn"
  /\ "device" \in parse_packet(scanners[thr[t].i], thr[t].frame)
  /\ d \in DevicesOf(scanners[thr[t].i])
  /\ HandlePacketDevice(t, d)

\* the manager after register_scanner (up to MaxRouted times),
\* set_on_device_discovered and start, as main.py and the dashboard leave it
InitRoute ==
  /\ scanners \in UNION { [1..n -> ScannerKinds] : n \in 0..MaxRouted }
  /\ devices = <<>>
  /\ heap = <<>>
  /\ lock = [owner |-> NoOwner, count |-> 0]
  /\ sniff_thread = 1
  /\ running = TRUE
  /\ cbNew = TRUE
  /\ cbUpd = FALSE
  /\ thr = [t \in Threads |-> IF t = 1 THEN At("loop") ELSE Unborn]
  /\ now = 0
  /\ uipc = "idle"
  /\ ret = NoReturn
  /\ obs = <<>>
  /\ mergeLog = <<>>
  /\ notifyLog = <<>>

Route(t) ==
  \/ SniffLoopBegins(t)
  \/ \E f \in Frames : RouteFrameArrives(t, f)
  \/ \E o \in {"None", "raise"} : RouteSkip(t, o)
  \/ \E d \in DeviceInputs : RouteDevice(t, d)
  \/ OnDiscoveredEnter(t)
  \/ OnDiscoveredIp(t)
  \/ CallbackReturns(t)
  \/ StopFilter(t)

NextRoute == \E t \in Threads : Route(t)

SpecRoute == InitRoute /\ [][NextRoute]_vars

\* ---- a notification callback that queries the registry --------------------
\* The callback runs on the capture thread, inside _on_device_discovered's
\* with block; a call it makes enters `with self._lock` again and leaves it.

\* the callback calls get_devices
CallbackGetDevices(t) ==
  /\ thr[t].pc = "in_cb"
  /\ CanAcquire(lock, t)
  /\ lock' = Release(Acquire(lock, t))
  /\ thr' = [thr EXCEPT ![t].got = get_devices_value(devices)]
  /\ UNCHANGED <<scanners, devices, heap, sniff_thread, running, cbNew, cbUpd, now,
                 uipc, ret, obs, mergeLog, notifyLog>>

\* the callback calls get_device_count
CallbackGetDeviceCount(t) ==
  /\ thr[t].pc = "in_cb"
  /\ CanAcquire(lock, t)
  /\ lock' = Release(Acquire(lock, t))
  /\ thr' = [thr EXCEPT ![t].got = [NoReturn EXCEPT !.op = "get_device_count",
                                                    !.n = get_device_count_value(devices)]]
  /\ UNCHANGED <<scanners, devices, heap, sniff_thread, running, cbNew, cbUpd, now,
                 uipc, ret, obs, mergeLog, notifyLog>>

\* the callback calls clear_devices
CallbackClearDevices(t) ==
  /\ thr[t].pc = "in_cb"
  /\ CanAcquire(lock, t)
  /\ lock' = Release(Acquire(lock, t))
  /\ devices' = <<>>
  /\ mergeLog' = <<>>
  /\ notifyLog' = <<>>
  /\ thr' = [thr EXCEPT ![t].got = [NoReturn EXCEPT !.op = "clear_devices"]]
  /\ UNCHANGED <<scanners, heap, sniff_thread, running, cbNew, cbUpd, now,
                 uipc, ret, obs>>

CallbackQueries(t) ==
  \/ CallbackGetDevices(t)
  \/ CallbackGetDeviceCount(t)
  \/ CallbackClearDevices(t)

NextReentrant == Next \/ \E t \in Threads : CallbackQueries(t)

SpecReentrant == Init /\ [][NextReentrant]_vars

\* ---- a notification callback that raises ----------------------------------
\* The consumer's callback raises an Exception.  It leaves the `with
\* self._lock` block of _on_device_discovered, which releases the lock, and
\* the scanner's callback, and is caught and printed by handle_packet's
\* `except Exception`; the thread's log keeps the print.
CallbackRaises(t) ==
  /\ thr[t].pc = "in_cb"
  /\ lock' = IF CallbackInsideWith THEN Release(lock) ELSE lock
  /\ heap' = Drop(heap, thr[t].dev, thr[t].existing)
  /\ thr' = [thr EXCEPT ![t] =
       IF handle_packet_catches
       THEN [AfterScanner(thr[t], "raise") EXCEPT !.log = Append(thr[t].log, "callback raised")]
       ELSE Ended("failed")]
  /\ UNCHANGED <<scanners, devices, sniff_thread, running, cbNew, cbUpd, now,
                 uipc, ret, obs, mergeLog, notifyLog>>

NextRaise ==
  \/ NextLifecycle
  \/ set_on_device_updated
  \/ \E t \in Threads : CallbackRaises(t)

SpecRaise == Init /\ [][NextRaise]_vars

\* ---- bytes and text of the discovery payloads ------------------------------
\* A payload is a sequence of bytes 0..255.  Text is a sequence of characters,
\* as the MACs above; a character is a one-character string, and a character
\* that cannot be written in one stands as its escape ("\\x0" is U+0000).
Ascii32 == " !\"#$%&'()*+,-./0123456789:;<=>?@ABCDEFGHIJKLMNOPQRSTUVWXYZ[\\]^_"
Ascii97 == "abcdefghijklmnopqrstuvwxyz{|}~"

\* chr(b) for a code point below 128
chr(b) == IF b >= 32 /\ b <= 95 THEN SubSeq(Ascii32, b - 31, b - 31)
          ELSE IF b >= 97 /\ b <= 126 THEN SubSeq(Ascii97, b - 96, b - 96)
          ELSE "\\x" \o ToString(b)

NUL == chr(0)

\* a str literal of the source as text
Chars(s) == [i \in 1..Len(s) |-> SubSeq(s, i, i)]

\* data[a:b] of Python, a and b counted from 0 and clipped to the data
Slice(data, a, b) ==
  LET hi == IF b < Len(data) THEN b ELSE Len(data)
  IN IF a >= hi THEN <<>> ELSE SubSeq(data, a + 1, hi)

\* bytes.decode('utf-8', errors='ignore'): a byte below 128 is its character,
\* a two-byte form is one character, a byte that starts no character is left
\* out.  (The payloads here hold no three- or four-byte forms.)
RECURSIVE decode(_)
decode(bs) ==
  IF Len(bs) = 0 THEN <<>>
  ELSE IF bs[1] < 128 THEN <<chr(bs[1])>> \o decode(Tail(bs))
  ELSE IF /\ bs[1] >= 194 /\ bs[1] <= 223
          /\ Len(bs) >= 2 /\ bs[2] >= 128 /\ bs[2] <= 191
       THEN <<"\\u" \o ToString((bs[1] - 192) * 64 + (bs[2] - 128))>>
              \o decode(Tail(Tail(bs)))
  ELSE decode(Tail(bs))

\* str.lstrip('\x00')
RECURSIVE lstrip_nul(_)
lstrip_nul(s) ==
  IF Len(s) > 0 /\ s[1] = NUL THEN lstrip_nul(Tail(s)) ELSE s

\* str.rstrip('\x00')
RECURSIVE rstrip_nul(_)
rstrip_nul(s) ==
  IF Len(s) > 0 /\ s[Len(s)] = NUL THEN rstrip_nul(SubSeq(s, 1, Len(s) - 1)) ELSE s

\* mutant of strip_nul: the text is taken as decoded
strip_nothing(s) == s

\* str.strip('\x00')
strip_nul(s) == rstrip_nul(lstrip_nul(s))

\* value.decode('utf-8', errors='ignore').strip('\x00')
text(value) == strip_nul(decode(value))

\* f'{b:02X}'
HexDigits == "0123456789ABCDEF"
hex02X(b) == << SubSeq(HexDigits, (b \div 16) + 1, (b \div 16) + 1),
                SubSeq(HexDigits, (b % 16) + 1, (b % 16) + 1) >>

\* sep.join(parts) on text
RECURSIVE join_text(_, _)
join_text(sep, parts) ==
  IF Len(parts) = 0 THEN <<>>
  ELSE IF Len(parts) = 1 THEN parts[1]
  ELSE parts[1] \o sep \o join_text(sep, Tail(parts))

\* mutant of mac_str: the octets are joined without a separator
mac_str_plain(value) == join_text(<<>>, [i \in 1..6 |-> hex02X(value[i])])

\* ':'.join(f'{b:02X}' for b in value[:6])
mac_str(value) == join_text(<<":">>, [i \in 1..6 |-> hex02X(value[i])])

\* '.'.join(str(b) for b in four)
ip_str(four) == join_text(<<".">>, [i \in 1..Len(four) |-> Chars(ToString(four[i]))])

\* struct.unpack('>H', two)[0] and struct.unpack('<H', two)[0]
unpack_be16(two) == two[1] * 256 + two[2]
unpack_le16(two) == two[2] * 256 + two[1]

\* struct.unpack('>I', four)[0] and struct.unpack('<I', four)[0]
unpack_be32(four) == ((four[1] * 256 + four[2]) * 256 + four[3]) * 256 + four[4]
unpack_le32(four) == ((four[4] * 256 + four[3]) * 256 + four[2]) * 256 + four[1]

\* str.lower() on one character, and on text
LowerOf == [c \in {UpperChars[i] : i \in 1..26} |->
              LowerChars[CHOOSE i \in 1..26 : UpperChars[i] = c]]
LowerChar(c) == IF c \in DOMAIN LowerOf THEN LowerOf[c] ELSE c
lower(s) == [i \in 1..Len(s) |-> LowerChar(s[i])]

\* `sub in s` on text
contains(sub, s) ==
  \E i \in 1..(Len(s) - Len(sub) + 1) : SubSeq(s, i, i + Len(sub) - 1) = sub

\* a dict with str keys: a function on the keys it holds
EmptyDict == [k \in {} |-> 0]
dict_get(d, k, default) == IF k \in DOMAIN d THEN d[k] ELSE default
dict_put(d, k, v) == (k :> v) @@ d

\* ---- the TLV decoders ------------------------------------------------------
\* UbiquitiScanner.TLV_*
UBNT_TLV_MAC_ADDRESS == 1
UBNT_TLV_IP_INFO == 2
UBNT_TLV_FIRMWARE == 3
UBNT_TLV_HOSTNAME == 11
UBNT_TLV_MODEL_SHORT == 12
UBNT_TLV_ESSID == 13
UBNT_TLV_UPTIME == 14
UBNT_TLV_MODEL_FULL == 20

\* MNDPScanner.TLV_*
MNDP_TLV_MAC_ADDRESS == 1
MNDP_TLV_IDENTITY == 5
MNDP_TLV_VERSION == 7
MNDP_TLV_PLATFORM == 8
MNDP_TLV_UPTIME == 10
MNDP_TLV_SOFTWARE_ID == 11
MNDP_TLV_BOARD == 14
MNDP_TLV_IPV6 == 16
MNDP_TLV_INTERFACE == 17
MNDP_TLV_IPV4 == 20

\* the bytes of a TLV's type and length: `offset + 3` and `offset + 4` of the
\* two loops
UbntHeader == 3
MndpHeader == 4
header(s) == IF s = "ubnt" THEN UbntHeader ELSE MndpHeader

\* mutant of short_model_applies: the short model is always taken
short_model_always(result) == TRUE

\* `if 'model' not in result` of TLV_MODEL_SHORT
short_model_applies(result) == "model" \notin DOMAIN result

\* the branch of UbiquitiScanner._parse_tlv for one TLV
ubnt_field(result, tlv_type, value) ==
  IF tlv_type = UBNT_TLV_MAC_ADDRESS THEN
    IF Len(value) >= 6 THEN dict_put(result, "mac", mac_str(Slice(value, 0, 6)))
    ELSE result
  ELSE IF tlv_type = UBNT_TLV_IP_INFO THEN
    IF Len(value) >= 10
    THEN dict_put(dict_put(result, "mac", mac_str(Slice(value, 0, 6))),
                  "ip", ip_str(Slice(value, 6, 10)))
    ELSE result
  ELSE IF tlv_type = UBNT_TLV_FIRMWARE THEN dict_put(result, "firmware", text(value))
  ELSE IF tlv_type = UBNT_TLV_HOSTNAME THEN dict_put(result, "hostname", text(value))
  ELSE IF tlv_type = UBNT_TLV_MODEL_SHORT THEN
    IF short_model_applies(result) THEN dict_put(result, "model", text(value))
    ELSE result
  ELSE IF tlv_type = UBNT_TLV_MODEL_FULL THEN dict_put(result, "model", text(value))
  ELSE IF tlv_type = UBNT_TLV_UPTIME THEN
    IF Len(value) >= 4 THEN dict_put(result, "uptime", unpack_be32(Slice(value, 0, 4)))
    ELSE result
  ELSE result

\* the branch of MNDPScanner._parse_tlv for one TLV
mndp_field(result, tlv_type, value) ==
  IF tlv_type = MNDP_TLV_MAC_ADDRESS THEN
    IF Len(value) >= 6 THEN dict_put(result, "mac", mac_str(Slice(value, 0, 6)))
    ELSE result
  ELSE IF tlv_type = MNDP_TLV_IDENTITY THEN dict_put(result, "identity", text(value))
  ELSE IF tlv_type = MNDP_TLV_VERSION THEN dict_put(result, "version", text(value))
  ELSE IF tlv_type = MNDP_TLV_PLATFORM THEN dict_put(result, "platform", text(value))
  ELSE IF tlv_type = MNDP_TLV_BOARD THEN dict_put(result, "board", text(value))
  ELSE IF tlv_type = MNDP_TLV_UPTIME THEN
    IF Len(value) >= 4 THEN dict_put(result, "uptime", unpack_le32(Slice(value, 0, 4)))
    ELSE result
  ELSE IF tlv_type = MNDP_TLV_IPV4 THEN
    IF Len(value) >= 4 THEN dict_put(result, "ip", ip_str(Slice(value, 0, 4)))
    ELSE result
  ELSE result

\* the type and the declared length of the TLV at offset
tlv_type_at(s, data, offset) ==
  IF s = "ubnt" THEN data[offset + 1]
  ELSE unpack_le16(Slice(data, offset, offset + 2))
tlv_len_at(s, data, offset) ==
  IF s = "ubnt" THEN unpack_be16(Slice(data, offset + 1, offset + 3))
  ELSE unpack_le16(Slice(data, offset + 2, offset + 4))

\* mutant of overrun_keeps: an overrun throws away what was decoded
overrun_discards(result) == EmptyDict

\* `break` on a TLV that runs past the data: the result so far stays
overrun_keeps(result) == result

\* mutant of advance: the offset moves by the length of the value alone
advance_value_only(s, offset, tlv_len) == offset + tlv_len

\* `offset += 3 + tlv_len`, `offset += 4 + tlv_len`
advance(s, offset, tlv_len) == offset + header(s) + tlv_len

\* one evaluation of the loop condition of _parse_tlv and, when it holds, one
\* pass through the body; st is the loop's data: offset, result, and whether
\* the loop goes on.  (Nothing in the body raises on bytes: the slices are
\* inside the data and the decoding ignores errors; `except Exception: break`
\* is never taken.)
tlv_step(s, data, st) ==
  IF ~(st.offset + header(s) <= Len(data)) THEN [st EXCEPT !.looping = FALSE]
  ELSE
    LET tlv_type == tlv_type_at(s, data, st.offset)
        tlv_len == tlv_len_at(s, data, st.offset)
        value == Slice(data, st.offset + header(s), st.offset + header(s) + tlv_len)
    IN IF st.offset + header(s) + tlv_len > Len(data)
       THEN [offset |-> st.offset, result |-> overrun_keeps(st.result), looping |-> FALSE]
       ELSE [offset |-> advance(s, st.offset, tlv_len),
             result |-> IF s = "ubnt" THEN ubnt_field(st.result, tlv_type, value)
                        ELSE mndp_field(st.result, tlv_type, value),
             looping |-> TRUE]

\* _parse_tlv's locals on entry
TlvStart == [offset |-> 0, result |-> EmptyDict, looping |-> TRUE]

\* _parse_tlv(data) as a whole: the loop run from st to its end
RECURSIVE tlv_run(_, _, _)
tlv_run(s, data, st) ==
  IF st.looping THEN tlv_run(s, data, tlv_step(s, data, st)) ELSE st.result

parse_tlv(s, data) == tlv_run(s, data, TlvStart)

\* None, and a returned object
None == <<>>
Some(x) == <<x>>

\* parse_packet between the payload check and the call of _parse_tlv: the
\* data handed to _parse_tlv, or None.  Ubiquiti: at least 6 bytes, signature
\* 01 00 or 02 00, TLVs from offset 4.  MNDP: at least 4 bytes, TLVs from
\* offset 0.
tlv_data(s, payload) ==
  IF s = "ubnt" THEN
    IF Len(payload) < 6 THEN None
    ELSE IF Slice(payload, 0, 2) \notin {<<1, 0>>, <<2, 0>>} THEN None
    ELSE Some(Slice(payload, 4, Len(payload)))
  ELSE
    IF Len(payload) < 4 THEN None
    ELSE Some(payload)

\* mutant of combined: platform and board are put together without a space
combined_plain(platform, board) == lower(platform \o board)

\* `(platform + ' ' + board).lower()`
combined(platform, board) == lower(platform \o <<" ">> \o board)

\* mikrotik_indicators
mikrotik_indicators ==
  << "routerboard", "rb", "ccr", "crs", "css", "hex", "hap", "mikrotik",
     "routeros", "chr", "ltap", "wap", "disc", "sxt", "lhg", "basebox",
     "netbox", "netmetal", "powerbox" >>

\* MNDPScanner._detect_brand
detect_brand(platform, board) ==
  LET c == combined(platform, board)
  IN IF contains(Chars("mimosa"), c) THEN "Mimosa"
     ELSE IF \E i \in 1..Len(mikrotik_indicators) :
                contains(Chars(mikrotik_indicators[i]), c) THEN "Mikrotik"
     ELSE "Mikrotik/MNDP"

\* mutant of mac_missing: a Device is made without a MAC too
mac_never_missing(mac) == FALSE

\* `if not mac`
mac_missing(mac) == mac = <<>>

\* mutant of source_ip: no address is taken from the packet
source_ip_none(f) == <<>>

\* packet[IP].src
source_ip(f) == f.src

\* parse_packet from the return of _parse_tlv on: the required field, and the
\* Device (without the two timestamps its constructor adds)
device_of(s, tlv, f) ==
  IF s = "ubnt" THEN
    LET mac == dict_get(tlv, "mac", <<>>)
    IN IF mac_missing(mac) THEN None
       ELSE Some([brand |-> "Ubiquiti",
                  ip |-> dict_get(tlv, "ip", source_ip(f)),
                  mac |-> mac,
                  name |-> dict_get(tlv, "hostname", Chars("Unknown")),
                  model |-> dict_get(tlv, "model", <<>>),
                  firmware |-> dict_get(tlv, "firmware", <<>>),
                  uptime |-> dict_get(tlv, "uptime", 0)])
  ELSE
    LET mac == dict_get(tlv, "mac", <<>>)
        platform == dict_get(tlv, "platform", <<>>)
        board == dict_get(tlv, "board", <<>>)
    IN IF mac_missing(mac) THEN None
       ELSE Some([brand |-> detect_brand(platform, board),
                  ip |-> dict_get(tlv, "ip", source_ip(f)),
                  mac |-> mac,
                  name |-> dict_get(tlv, "identity", Chars("Unknown")),
                  model |-> IF board # <<>> THEN board ELSE platform,
                  firmware |-> dict_get(tlv, "version", <<>>),
                  uptime |-> dict_get(tlv, "uptime", 0)])

\* ---- the decoders on payloads ----------------------------------------------
\* Spec and SpecRoute leave the bytes of a payload open.  Here handle_packet
\* of a scanner that has no callback is called with frames that carry bytes,
\* and parse_packet is followed through its checks, the TLV loop (one step
\* per evaluation of the loop condition) and the making of the Device.
MaxTlvs == 3       \* TLVs put together into one payload
MaxGarbage == 5    \* bytes of a payload of arbitrary bytes
FairTlvs == 1      \* the same two, where the end of every call is checked
FairGarbage == 4

\* ord(c) for a character below 128, and str.encode() on such text
ord(c) == CHOOSE b \in 0..127 : chr(b) = c
Bytes(s) == [i \in 1..Len(s) |-> ord(SubSeq(s, i, i))]

\* a TLV as it is on the wire: the type, the declared length, and the bytes
\* that follow the header
Tlv(tlv_type, value) == [type |-> tlv_type, len |-> Len(value), value |-> value]
wire(s, r) ==
  IF s = "ubnt" THEN <<r.type, r.len \div 256, r.len % 256>> \o r.value
  ELSE <<r.type % 256, r.type \div 256, r.len % 256, r.len \div 256>> \o r.value

RECURSIVE wire_all(_, _)
wire_all(s, rs) == IF Len(rs) = 0 THEN <<>> ELSE wire(s, rs[1]) \o wire_all(s, Tail(rs))

MacBytesA == <<170, 187, 204, 221, 238, 255>>
MacBytesB == <<0, 27, 44, 61, 78, 95>>

\* the TLVs of the Ubiquiti payloads: the fields of the decoder, a MAC that is
\* too short, an address TLV without the address, a padded hostname, two full
\* models, an empty TLV, a TLV of unknown type, and a TLV whose declared
\* length runs past any payload
UbntTlvs ==
  { Tlv(UBNT_TLV_MAC_ADDRESS, MacBytesA),
    Tlv(UBNT_TLV_MAC_ADDRESS, MacBytesB),
    Tlv(UBNT_TLV_MAC_ADDRESS, <<170, 187, 204>>),
    Tlv(UBNT_TLV_IP_INFO, MacBytesA \o <<192, 168, 1, 20>>),
    Tlv(UBNT_TLV_IP_INFO, MacBytesB),
    Tlv(UBNT_TLV_HOSTNAME, Bytes("AP1")),
    Tlv(UBNT_TLV_HOSTNAME, Bytes("AP1") \o <<0, 0>>),
    Tlv(UBNT_TLV_UPTIME, <<0, 0, 14, 16>>),
    Tlv(UBNT_TLV_MODEL_SHORT, Bytes("NSM5")),
    Tlv(UBNT_TLV_MODEL_FULL, Bytes("NanoStation")),
    Tlv(UBNT_TLV_MODEL_FULL, Bytes("Rocket")),
    Tlv(UBNT_TLV_FIRMWARE, Bytes("v1")),
    Tlv(UBNT_TLV_ESSID, <<>>),
    Tlv(127, <<255>>),
    [type |-> UBNT_TLV_HOSTNAME, len |-> 300, value |-> <<65>>] }

\* the TLVs of the MNDP payloads
MndpTlvs ==
  { Tlv(MNDP_TLV_MAC_ADDRESS, MacBytesA),
    Tlv(MNDP_TLV_MAC_ADDRESS, <<170, 187, 204>>),
    Tlv(MNDP_TLV_IDENTITY, Bytes("AP2")),
    Tlv(MNDP_TLV_VERSION, Bytes("6.49")),
    Tlv(MNDP_TLV_PLATFORM, Bytes("RouterBOARD 951")),
    Tlv(MNDP_TLV_PLATFORM, Bytes("Mimosa B5")),
    Tlv(MNDP_TLV_PLATFORM, Bytes("SomeVendor")),
    Tlv(MNDP_TLV_PLATFORM, Bytes("mim")),
    Tlv(MNDP_TLV_PLATFORM, Bytes("R")),
    Tlv(MNDP_TLV_BOARD, Bytes("osa")),
    Tlv(MNDP_TLV_BOARD, Bytes("B")),
    Tlv(MNDP_TLV_BOARD, Bytes("hAP")),
    Tlv(MNDP_TLV_UPTIME, <<16, 14, 0, 0>>),
    Tlv(MNDP_TLV_IPV4, <<10, 0, 0, 2>>),
    Tlv(MNDP_TLV_IPV4, <<10, 0>>),
    Tlv(MNDP_TLV_IPV6, <<>>),
    Tlv(99, <<255>>),
    [type |-> MNDP_TLV_IDENTITY, len |-> 300, value |-> <<65>>] }

TlvsOf(s) == IF s = "ubnt" THEN UbntTlvs ELSE MndpTlvs

\* the sequences of at most n elements of S
SeqsUpTo(S, n) == UNION { [1..k -> S] : k \in 0..n }

\* the four bytes before the TLVs of a Ubiquiti payload: the signature and
\* two more bytes; an MNDP payload starts with its first TLV
UbntSignature(version) == <<version, 0, 0, 0>>
preamble(s) == IF s = "ubnt" THEN UbntSignature(1) ELSE <<>>

\* the encoder of the round trip: signature 01 00, TLVs from offset 4 with a
\* one-byte type and a two-byte big-endian length, carrying the MAC, the
\* hostname and the uptime
ubnt_encode(mac, hostname, uptime) ==
  <<1, 0, 0, 0>>
  \o <<UBNT_TLV_MAC_ADDRESS, 0, 6>> \o mac
  \o <<UBNT_TLV_HOSTNAME, Len(hostname) \div 256, Len(hostname) % 256>> \o Bytes(hostname)
  \o <<UBNT_TLV_UPTIME, 0, 4>>
  \o << uptime \div 16777216, (uptime \div 65536) % 256, (uptime \div 256) % 256,
        uptime % 256 >>

\* what the round trip encodes.  (An uptime is below 2^31 here: the numbers
\* of the model checker end there.)
EncodedMacs == { MacBytesA, MacBytesB }
EncodedHostnames == { "AP1", "", "core-sw 2" }
EncodedUptimes == { 0, 3600, 2147483647 }
Encoded ==
  { ubnt_encode(m, h, u) : m \in EncodedMacs, h \in EncodedHostnames, u \in EncodedUptimes }

\* arbitrary bytes: every sequence of at most n bytes out of a few
GarbageBytes == {0, 1, 3, 255}
Garbage(n) == SeqsUpTo(GarbageBytes, n)

\* payloads for scanner s, of at most n TLVs and g arbitrary bytes: TLVs put
\* together, the same behind one or two bytes short of a header, arbitrary
\* bytes, and for Ubiquiti the other signature, a signature that is none, and
\* what the encoder makes
Payloads(s, n, g) ==
  { preamble(s) \o wire_all(s, rs) : rs \in SeqsUpTo(TlvsOf(s), n) }
  \cup { preamble(s) \o wire_all(s, rs) \o tail :
           rs \in SeqsUpTo(TlvsOf(s), 1), tail \in {<<1>>, <<1, 0>>} }
  \cup { preamble(s) \o b : b \in Garbage(g) }
  \cup (IF s = "ubnt"
        THEN { UbntSignature(v) \o wire_all(s, rs) :
                 v \in {2, 3}, rs \in SeqsUpTo(TlvsOf(s), 1) }
             \cup Garbage(g) \cup Encoded
        ELSE {})

PacketSource == Chars("10.0.0.9")

\* a frame with payload p: IP/UDP on the port of scanner s
Datagram(s, p) ==
  [ip |-> TRUE, udp |-> TRUE, sport |-> port(s), dport |-> port(s),
   load |-> Len(p) > 0, src |-> PacketSource, payload |-> p]

\* the frames given to the scanners: each payload on either port
DecodeFrames ==
  { Datagram(s, p) : s \in ScannerKinds,
                     p \in Payloads("ubnt", MaxTlvs, MaxGarbage)
                           \cup Payloads("mndp", MaxTlvs, MaxGarbage) }

\* a thread in handle_packet of scanner s with frame f
Decoding(pc, s, f, data, st, out) ==
  [pc |-> pc, s |-> s, frame |-> f, data |-> data, tlv |-> st, out |-> out]

Idle == Decoding("idle", "", NoFrame, <<>>, TlvStart, None)

\* handle_packet calls parse_packet: the layer, port and payload checks, the
\* length and signature checks, and the entry into _parse_tlv
Called(s, f) ==
  IF "device" \notin parse_packet(s, f) \/ tlv_data(s, f.payload) = None
  THEN Decoding("returned", s, f, <<>>, TlvStart, None)
  ELSE Decoding("tlv", s, f, tlv_data(s, f.payload)[1], TlvStart, None)

\* handle_packet is called with a frame out of frames
HandlePacketCalled(t, frames) ==
  /\ thr[t].pc = "idle"
  /\ \E s \in ScannerKinds, f \in frames : thr' = [thr EXCEPT ![t] = Called(s, f)]
  /\ UNCHANGED <<scanners, devices, heap, lock, sniff_thread, running, cbNew, cbUpd,
                 now, uipc, ret, obs, mergeLog, notifyLog>>

\* one evaluation of the loop condition of _parse_tlv, with the body if it
\* holds; when the loop ends, _parse_tlv returns its result
TlvStep(t) ==
  /\ thr[t].pc = "tlv"
  /\ LET st == tlv_step(thr[t].s, thr[t].data, thr[t].tlv)
     IN thr' = [thr EXCEPT ![t].tlv = st,
                           ![t].pc = IF st.looping THEN "tlv" ELSE "fields"]
  /\ UNCHANGED <<scanners, devices, heap, lock, sniff_thread, running, cbNew, cbUpd,
                 now, uipc, ret, obs, mergeLog, notifyLog>>

\* parse_packet after _parse_tlv: None without a MAC, else the Device
DecodeReturn(t) ==
  /\ thr[t].pc = "fields"
  /\ thr' = [thr EXCEPT ![t].out = device_of(thr[t].s, thr[t].tlv.result, thr[t].frame),
                        ![t].pc = "returned"]
  /\ UNCHANGED <<scanners, devices, heap, lock, sniff_thread, running, cbNew, cbUpd,
                 now, uipc, ret, obs, mergeLog, notifyLog>>

\* handle_packet returns (`self._callback` is None), ready for the next frame
DecodeDone(t) ==
  /\ thr[t].pc = "returned"
  /\ thr' = [thr EXCEPT ![t] = Idle]
  /\ UNCHANGED <<scanners, devices, heap, lock, sniff_thread, running, cbNew, cbUpd,
                 now, uipc, ret, obs, mergeLog, notifyLog>>

InitDecode ==
  /\ scanners = <<>>
  /\ devices = <<>>
  /\ heap = <<>>
  /\ lock = [owner |-> NoOwner, count |-> 0]
  /\ sniff_thread = 0
  /\ running = FALSE
  /\ cbNew = FALSE
  /\ cbUpd = FALSE
  /\ thr = [t \in Threads |-> IF t = 1 THEN Idle ELSE Unborn]
  /\ now = 0
  /\ uipc = "idle"
  /\ ret = NoReturn
  /\ obs = <<>>
  /\ mergeLog = <<>>
  /\ notifyLog = <<>>

Decode(t) ==
  \/ HandlePacketCalled(t, DecodeFrames)
  \/ TlvStep(t)
  \/ DecodeReturn(t)
  \/ DecodeDone(t)

NextDecode == \E t \in Threads : Decode(t)

SpecDecode == InitDecode /\ [][NextDecode]_vars

\* one call of handle_packet, which the caller runs to its end
ShortTlvs(s) == { r \in TlvsOf(s) : Len(r.value) <= 1 }

FairPayloads(s) ==
  Payloads(s, FairTlvs, FairGarbage)
  \cup { preamble(s) \o wire_all(s, rs) : rs \in SeqsUpTo(ShortTlvs(s), MaxTlvs) }

FairFrames ==
  { Datagram(s, p) : s \in ScannerKinds, p \in FairPayloads("ubnt") \cup FairPayloads("mndp") }

DecodeOnce(t) ==
  \/ HandlePacketCalled(t, FairFrames)
  \/ TlvStep(t)
  \/ DecodeReturn(t)

NextDecodeOnce == \E t \in Threads : DecodeOnce(t)

SpecDecodeFair ==
  InitDecode /\ [][NextDecodeOnce]_vars /\ \A t \in Threads : WF_vars(DecodeOnce(t))

\* ---- claims ---------------------------------------------------------------
Dead == {"unborn", "done", "failed", "crashed"}
Updating(o) == \E t \in Threads : thr[t].pc = "upd_ip" /\ thr[t].existing = o
SightingsOf(k) == { n \in 1..Len(mergeLog) : Upper(mergeLog[n].mac) = k }
First(S) == CHOOSE n \in S : \A m \in S : n <= m
Last(S) == CHOOSE n \in S : \A m \in S : m <= n

\* C1: after any sequence of _on_device_discovered calls since the last clear,
\* the registry holds exactly one record per distinct upper-cased MAC fed in;
\* the record's discovered_at is that of the first sighting of the MAC and,
\* once the call has written it, its ip is that of the latest sighting.
C1_RegistryDedup ==
  /\ \A i, j \in 1..Len(devices) :
       Upper(devices[i].key) = Upper(devices[j].key) => i = j
  /\ { Upper(devices[i].key) : i \in 1..Len(devices) }
       = { Upper(mergeLog[n].mac) : n \in 1..Len(mergeLog) }
  /\ \A i \in 1..Len(devices) :
       LET S == SightingsOf(Upper(devices[i].key))
           rec == heap[devices[i].obj]
       IN /\ rec.discovered_at = mergeLog[First(S)].at
          /\ ~Updating(devices[i].obj) => rec.ip = mergeLog[Last(S)].ip

\* C1 witness: two sightings whose MACs differ only in case and whose ips
\* differ have been merged into one record that has the second ip
C1_Witness ==
  /\ Len(devices) = 1
  /\ Len(mergeLog) = 2
  /\ mergeLog[1].mac # mergeLog[2].mac
  /\ mergeLog[1].ip # mergeLog[2].ip
  /\ ~Updating(devices[1].obj)
  /\ heap[devices[1].obj].ip = mergeLog[2].ip
  /\ heap[devices[1].obj].discovered_at = mergeLog[1].at

\* C2 as stated: while a notification callback runs, the capture thread does
\* not hold the registry lock and the consumer can complete get_devices
C2_CallbackLockReleased ==
  \A t \in Threads : thr[t].pc = "in_cb" =>
    /\ lock.owner # t
    /\ uipc = "idle" => ENABLED get_devices

\* C2 amended: a notification callback runs inside the with block: the
\* capture thread holds the registry lock for as long as the callback runs, the
\* consumer's get_devices / get_device_count / clear_devices cannot complete
\* meanwhile, and the lock is free again once handle_packet has returned
C2_CallbackUnderLock ==
  \A t \in Threads :
    /\ thr[t].pc = "in_cb" =>
         /\ lock.owner = t
         /\ ~ENABLED get_devices
         /\ ~ENABLED get_device_count
         /\ ~ENABLED clear_devices
    /\ thr[t].pc \notin {"upd_ip", "in_cb"} => lock.owner # t

\* C2 witness: a callback is running while the consumer is free to call
C2_Witness == \E t \in Threads : thr[t].pc = "in_cb" /\ uipc = "idle"

\* C3: stop() followed by start() does not deadlock (the join returns, and
\* start() can then run), start() leaves is_running() true, after a stop() it
\* does so with a new live capture thread, and no step of stop() or start()
\* changes the device map or a record
C3_StopThenStart ==
  /\ [](/\ uipc = "join" => ENABLED stop_join
        /\ (uipc = "idle" /\ ~running) => ENABLED start)
  /\ [][/\ (stop \/ stop_join \/ start) => UNCHANGED <<devices, heap>>
        /\ start => (is_running' /\ uipc' = "idle")
        /\ (start /\ ~running) => (sniff_thread' \in Live' /\ sniff_thread' \notin Live)]_vars

\* C3 witness: start() has run after a stop() whose join timed out (the old
\* loop is still alive beside the new one), with a device in the map
C3_Witness ==
  /\ running /\ uipc = "idle"
  /\ Cardinality(Live) = 2
  /\ Len(devices) > 0

\* C4 as stated: at most one capture loop is alive at any time
C4_SingleCaptureLoop == Cardinality(Live) <= 1

\* C5 as stated: once the capture loop has ended on a capture error (and no
\* loop is alive), is_running() is false
C5_RunningReflectsFailure ==
  (sniff_thread # 0 /\ thr[sniff_thread].pc = "failed" /\ Live = {}) => ~is_running

\* C6: when a capture loop ends (stop filter, PermissionError, other capture
\* error) the exception does not leave _sniff_loop, and the device map and the
\* records are unchanged: get_devices and get_device_count return what they
\* returned before
C6_TerminationKeepsDevices ==
  [][\A t \in Threads :
       (thr[t].pc \notin Dead /\ thr'[t].pc \in Dead) =>
         /\ thr'[t].pc \in {"done", "failed"}
         /\ devices' = devices
         /\ \A o \in Stored : heap'[o] = heap[o]
         /\ get_devices_value(devices').items = Values(devices)
         /\ get_device_count_value(devices') = Len(devices)]_vars

\* C6 witness: a loop has ended on a capture error with a device in the map
C6_Witness == \E t \in Threads : thr[t].pc = "failed" /\ Len(devices) > 0

\* what the registry holds: the keys, in order, each with its record
RegistryState == [i \in 1..Len(devices) |-> [key |-> devices[i].key,
                                             rec |-> heap[devices[i].obj]]]

C8_NoTornRead ==
  obs # <<>> =>
    \A n \in 1..Len(mergeLog) :
      LET e == mergeLog[n]
      IN (e.present /\ e.obj = obs.obj /\ e.ip # e.old_ip) =>
           ~(obs.last_seen = e.new_seen /\ obs.ip = e.old_ip)

\* the step in which thread t's call of _on_device_discovered reaches the
\* point where the notification is made
Notifies(t) ==
  \/ thr[t].pc = "enter" /\ thr'[t].pc \notin {"enter", "upd_ip"}
  \/ thr[t].pc = "upd_ip" /\ thr'[t].pc # "upd_ip"

\* C9: every call of _on_device_discovered makes exactly one notification if
\* the callback for it is set and none otherwise: new-device, with the inserted
\* Device, iff the key was absent from the map at the call; device-updated,
\* with the record already stored, otherwise
C9_OneNotification ==
  [][/\ \A t \in Threads : Notifies(t) =>
          LET absent == thr[t].pc = "enter"
              stored == IF absent THEN thr[t].dev ELSE thr[t].existing
              want == [kind |-> IF absent THEN "new" ELSE "updated", arg |-> stored]
          IN /\ absent <=> Upper(heap[thr[t].dev].mac) \notin Keys(devices)
             /\ IF (IF absent THEN cbNew ELSE cbUpd)
                THEN /\ Len(notifyLog') = Len(notifyLog) + 1
                     /\ notifyLog'[Len(notifyLog')].kind = want.kind
                     /\ notifyLog'[Len(notifyLog')].arg = want.arg
                     /\ Lookup(devices', Upper(heap[thr[t].dev].mac)) = want.arg
                ELSE notifyLog' = notifyLog
     /\ (notifyLog' # notifyLog) => (notifyLog' = <<>> \/ \E t \in Threads : Notifies(t))]_vars

\* C9 witness: a new-device and a device-updated notification have been made
C9_Witness ==
  \E m, n \in 1..Len(notifyLog) :
    /\ notifyLog[m].kind = "new" /\ notifyLog[n].kind = "updated"
    /\ notifyLog[m].arg = notifyLog[n].arg

NotesOf(k) == { n \in 1..Len(notifyLog) : Upper(mergeLog[notifyLog[n].call].mac) = k }

\* C11 as stated: for every MAC the k-th notification belongs to the k-th
\* merge of that MAC since the last clear, the first of them being the
\* new-device notification and the later ones device-updated notifications
C11_KthNotification ==
  \A k \in Keys(devices) : \A n \in NotesOf(k) :
    LET rank == Cardinality({ m \in NotesOf(k) : m < n })
    IN /\ rank = Cardinality({ c \in SightingsOf(k) : c < notifyLog[n].call })
       /\ notifyLog[n].kind = IF rank = 0 THEN "new" ELSE "updated"

\* C11 amended: notifications are made in the order of the merges: each
\* belongs to one merge since the last clear, a later notification to a later
\* merge; it is the new-device notification, with the inserted record, iff its
\* merge inserted the MAC, so for a MAC a new-device notification comes before
\* every device-updated one.  A merge made while the callback of its kind is
\* not set has no notification, so the k-th notification of a MAC can belong
\* to a later merge than the k-th.
C11_NotificationOrder ==
  /\ \A m, n \in 1..Len(notifyLog) : m < n => notifyLog[m].call < notifyLog[n].call
  /\ \A n \in 1..Len(notifyLog) :
       /\ notifyLog[n].call \in 1..Len(mergeLog)
       /\ notifyLog[n].kind = (IF mergeLog[notifyLog[n].call].present THEN "updated" ELSE "new")
       /\ notifyLog[n].arg = mergeLog[notifyLog[n].call].obj
  /\ \A k \in Keys(devices) : \A m, n \in NotesOf(k) :
       (notifyLog[n].kind = "new" /\ m # n) => (n < m /\ notifyLog[m].kind = "updated")
  /\ \A k \in Keys(devices) : \A n \in NotesOf(k) :
       Cardinality({ m \in NotesOf(k) : m < n })
         <= Cardinality({ c \in SightingsOf(k) : c < notifyLog[n].call })

\* C11 witness: the first and the second merge of a MAC have been notified, in
\* that order, as new device and as device updated
C11_Witness ==
  /\ Len(notifyLog) = 2 /\ Len(devices) = 1
  /\ notifyLog[1].call = 1 /\ notifyLog[1].kind = "new"
  /\ notifyLog[2].call = 2 /\ notifyLog[2].kind = "updated"
  /\ NotesOf(devices[1].key) = {1, 2}

\* C12: a notification callback running on the capture thread can call
\* get_devices, get_device_count and clear_devices: the call is never blocked
\* by the lock its own thread holds, it returns what the registry holds (or
\* empties it) with the callback still running under the lock, and the
\* callback can then return, after which its thread no longer holds the lock
C12_NestedCallReturns ==
  /\ [](\A t \in Threads : thr[t].pc = "in_cb" =>
          /\ ENABLED CallbackGetDevices(t)
          /\ ENABLED CallbackGetDeviceCount(t)
          /\ ENABLED CallbackClearDevices(t)
          /\ ENABLED CallbackReturns(t))
  /\ [][\A t \in Threads :
          /\ CallbackQueries(t) =>
               /\ thr'[t].pc = "in_cb"
               /\ lock' = lock /\ lock.owner = t
          /\ CallbackGetDevices(t) =>
               (thr'[t].got.items = Values(devices) /\ devices' = devices)
          /\ CallbackGetDeviceCount(t) =>
               (thr'[t].got.n = Len(devices) /\ devices' = devices)
          /\ CallbackClearDevices(t) => devices' = <<>>
          /\ CallbackReturns(t) =>
               (lock'.owner = NoOwner /\ thr'[t].pc \in {"prn", "stop_filter"})]_vars

\* C12 witness: a callback has called get_devices and has been returned the
\* stored record, and is still running
C12_Witness ==
  \E t \in Threads :
    /\ thr[t].pc = "in_cb"
    /\ thr[t].got.op = "get_devices"
    /\ Len(thr[t].got.items) > 0
    /\ lock.owner = t

\* positions of a thread inside _packet_handler
Handling == {"prn", "enter", "upd_ip", "in_cb"}

\* C13: _packet_handler calls handle_packet of every registered scanner, in
\* registration order and with the same frame, whatever the scanners before
\* did (None, an exception, a Device): the loop starts with the first scanner,
\* the scanner after i is i + 1, prn returns to sniff() only after the last
\* one, no exception of parse_packet ends the capture loop, and a scanner
\* whose checks the frame passes can deliver its Device also after a scanner
\* before it raised
C13_RouteEveryScanner ==
  /\ [](\A t \in Threads : thr[t].pc = "prn" =>
          /\ thr[t].i \in 1..Len(scanners)
          /\ Len(thr[t].log) = thr[t].i - 1
          /\ ("device" \in parse_packet(scanners[thr[t].i], thr[t].frame)
                /\ Len(heap) < MaxObjs)
               => \A d \in DevicesOf(scanners[thr[t].i]) : ENABLED RouteDevice(t, d))
  /\ [][\A t \in Threads :
          /\ (thr[t].pc = "sniff" /\ thr'[t].pc # "sniff") =>
               IF Len(scanners) > 0
               THEN thr'[t].pc = "prn" /\ thr'[t].i = 1 /\ thr'[t].log = <<>>
               ELSE thr'[t].pc = "stop_filter"
          /\ thr[t].pc \in Handling => thr'[t].pc \in Handling \cup {"stop_filter"}
          /\ (thr[t].pc \in Handling /\ thr'[t].pc \in {"prn", "stop_filter"}
                /\ thr'[t] # thr[t]) =>
               IF thr[t].i < Len(scanners)
               THEN /\ thr'[t].pc = "prn"
                    /\ thr'[t].i = thr[t].i + 1
                    /\ thr'[t].frame = thr[t].frame
                    /\ Len(thr'[t].log) = Len(thr[t].log) + 1
               ELSE thr'[t].pc = "stop_filter"
          /\ (thr[t].pc = "prn" /\ thr'[t].pc = "enter") =>
               (thr'[t].i = thr[t].i /\ thr'[t].frame = thr[t].frame)]_vars

\* C13 witness: the first scanner raised on a frame, and the second scanner
\* has decoded the same frame and its Device is in the map and being notified
C13_Witness ==
  \E t \in Threads :
    /\ thr[t].pc = "in_cb" /\ thr[t].i = 2
    /\ thr[t].log = <<"raise">>
    /\ Len(devices) = 1 /\ devices[1].obj = thr[t].dev

\* C14: start() called while is_running() is true starts no thread and leaves
\* the flag, the thread handle, the threads, the scanner list, the device map
\* and the records as they are
C14_StartWhileRunning ==
  [][(start /\ is_running) =>
       /\ running' = running
       /\ sniff_thread' = sniff_thread
       /\ thr' = thr /\ Live' = Live
       /\ scanners' = scanners
       /\ devices' = devices /\ heap' = heap
       /\ ret'.op = "already running"]_vars

\* C14 witness: start() has returned on its "Already running" branch while a
\* capture loop is alive and a device is in the map
C14_Witness ==
  /\ ret.op = "already running"
  /\ running /\ sniff_thread # 0 /\ IsAlive(sniff_thread)
  /\ Len(devices) > 0

\* C15: the stop predicate is evaluated after every frame, and with the flag
\* cleared it ends the capture loop; so, frames arriving, a loop that is alive
\* while the flag is cleared has ended, or the flag has been set again by
\* start(), some time later
C15_CooperativeCancel ==
  /\ [][\A t \in Threads :
          /\ (thr[t].pc = "stop_filter" /\ thr'[t] # thr[t]) =>
               thr'[t].pc = (IF ~running THEN "done" ELSE "sniff")
          /\ (thr[t].pc \in Handling /\ thr'[t].pc \notin Handling) =>
               thr'[t].pc = "stop_filter"]_vars
  /\ \A t \in Threads : (~running /\ IsAlive(t)) ~> (running \/ ~IsAlive(t))

\* C15 witness: a capture loop has been ended by the stop predicate after
\* stop(), and start() has not been called again
C15_Witness ==
  /\ ~running /\ uipc = "idle"
  /\ sniff_thread # 0 /\ thr[sniff_thread].pc = "done"

\* C16: stop() returns to its caller: it clears the flag, waits in join() only
\* if there is a thread and it is alive, and the join can return while the
\* loop is still alive (the timeout); neither step ends or changes a thread.
\* Before any start() it returns at once, with is_running() false.
C16_StopReturns ==
  /\ []((uipc = "join" /\ IsAlive(sniff_thread)) => ENABLED stop_join)
  /\ [][/\ stop =>
             /\ ~is_running' /\ thr' = thr
             /\ uipc' = (IF sniff_thread # 0 /\ IsAlive(sniff_thread)
                         THEN "join" ELSE "idle")
        /\ stop_join => (uipc' = "idle" /\ thr' = thr /\ ~is_running')
        /\ (stop /\ sniff_thread = 0) => (uipc' = "idle" /\ Live' = {})]_vars

\* C16 witness: stop() has returned while the loop it was to stop is still
\* waiting in sniff() for a frame
C16_Witness ==
  /\ uipc = "idle" /\ ~running
  /\ sniff_thread # 0 /\ thr[sniff_thread].pc = "sniff"

\* the fields of a record that a repeat sighting leaves alone
Kept(rec) == [discovered_at |-> rec.discovered_at, mac |-> rec.mac, brand |-> rec.brand,
              name |-> rec.name, model |-> rec.model, firmware |-> rec.firmware,
              uptime |-> rec.uptime]

\* C17: a repeat sighting of a known MAC keeps the map as it is (the same
\* keys, in the same order, referring to the same objects) and changes of the
\* stored record only last_seen and, if the decoded ip differs, ip:
\* discovered_at, mac, brand, name, model, firmware and uptime keep the values
\* of the first sighting
C17_UpdateInPlace ==
  [][\A t \in Threads :
       /\ (thr[t].pc = "enter" /\ thr'[t].pc = "upd_ip") =>
            LET o == thr'[t].existing
            IN /\ devices' = devices
               /\ o = Lookup(devices, Upper(heap[thr[t].dev].mac))
               /\ heap' = [heap EXCEPT ![o].last_seen = heap'[o].last_seen]
       /\ (thr[t].pc = "upd_ip" /\ thr'[t].pc # "upd_ip") =>
            LET o == thr[t].existing
            IN /\ devices' = devices
               /\ heap'[o] = [heap[o] EXCEPT !.ip = heap[thr[t].dev].ip]
               /\ \A x \in Stored : x # o => heap'[x] = heap[x]
       /\ \A i \in 1..Len(devices) :
            (thr[t].pc \in {"enter", "upd_ip"} /\ thr'[t] # thr[t]) =>
               /\ devices'[i] = devices[i]
               /\ Kept(heap'[devices[i].obj]) = Kept(heap[devices[i].obj])]_vars

\* C17 witness: a second sighting of a MAC, decoded with another ip and another
\* name, has been merged: the one stored record is the object of the first
\* sighting and has the new ip and the old name
C17_Witness ==
  /\ Len(devices) = 1 /\ Len(mergeLog) = 2
  /\ mergeLog[2].present /\ mergeLog[2].obj = mergeLog[1].obj
  /\ devices[1].obj = mergeLog[1].obj
  /\ ~Updating(devices[1].obj)
  /\ mergeLog[1].ip # mergeLog[2].ip
  /\ heap[devices[1].obj].ip = mergeLog[2].ip
  /\ heap[devices[1].obj].name = "AP1"
  /\ heap[devices[1].obj].discovered_at = mergeLog[1].at

\* C18: a key leaves the device map only through clear_devices: every other
\* step (a merge, start, stop, get_devices, get_device_count, the end of a
\* capture loop) keeps every entry of the map, in its place, and can only add
\* one; clear_devices leaves the map empty, so that get_device_count is 0
C18_OnlyClearRemoves ==
  [][/\ clear_devices =>
          (devices' = <<>> /\ get_device_count_value(devices') = 0
             /\ get_devices_value(devices').items = <<>>)
     /\ ~clear_devices =>
          /\ Keys(devices) \subseteq Keys(devices')
          /\ Len(devices') >= Len(devices)
          /\ \A i \in 1..Len(devices) : devices'[i] = devices[i]]_vars

\* C18 witness: a Device that was in the map has left it through
\* clear_devices, and the map is empty
C18_Witness ==
  /\ devices = <<>> /\ uipc = "idle"
  /\ \E o \in 1..Len(heap) :
       /\ heap[o] # Freed
       /\ \A t \in Threads : thr[t].dev # o

\* "port P1 or port P2 or ...", one term for each registration, in order
RECURSIVE PortTerms(_)
PortTerms(ss) ==
  IF Len(ss) = 1 THEN "port " \o ToString(port(ss[1]))
  ELSE PortTerms(SubSeq(ss, 1, Len(ss) - 1)) \o " or "
         \o "port " \o ToString(port(ss[Len(ss)]))

\* C19: the filter a capture loop runs with is "udp" if no scanner is
\* registered and otherwise "udp and (port P1 or port P2 or ...)" with the port
\* of every registered scanner, once for each registration and in registration
\* order; for a Ubiquiti and an MNDP scanner it is
\* "udp and (port 10001 or port 5678)"
C19_BuildFilter ==
  \A t \in Threads : thr[t].pc \notin {"unborn", "loop"} =>
    /\ thr[t].filter = (IF Len(scanners) = 0 THEN "udp"
                        ELSE "udp and (" \o PortTerms(scanners) \o ")")
    /\ scanners = <<"ubnt", "mndp">> =>
         thr[t].filter = "udp and (port 10001 or port 5678)"
    /\ scanners = <<"mndp", "mndp">> =>
         thr[t].filter = "udp and (port 5678 or port 5678)"

\* C19 witness: a loop captures with the filter of a Ubiquiti scanner and an
\* MNDP scanner
C19_Witness ==
  /\ Len(scanners) = 2 /\ port(scanners[1]) = 10001 /\ port(scanners[2]) = 5678
  /\ thr[1].pc = "sniff"
  /\ thr[1].filter = "udp and (port 10001 or port 5678)"

\* frame f has an IP and a UDP layer, its source or its destination port is
\* the port of scanner s, and it has a payload
Handed(s, f) == f.ip /\ f.udp /\ (f.sport = port(s) \/ f.dport = port(s)) /\ f.load

\* C20: handle_packet of a scanner does nothing with a frame that lacks the IP
\* or the UDP layer or a payload, or of which neither port is the scanner's:
\* no Device is constructed, no exception is raised, the callback is not
\* called and the registry is as before, and the frame goes on to the next
\* scanner.  A frame with the layers and a payload of which either port is
\* the scanner's goes to the decoder, which can return None, raise or return
\* a Device of the scanner.
C20_PortMismatchIgnored ==
  /\ [](\A t \in Threads : thr[t].pc = "prn" =>
          LET s == scanners[thr[t].i]
              f == thr[t].frame
          IN /\ ENABLED RouteSkip(t, "None")
             /\ ~Handed(s, f) =>
                  /\ ~ENABLED RouteSkip(t, "raise")
                  /\ \A d \in DeviceInputs : ~ENABLED RouteDevice(t, d)
             /\ Handed(s, f) =>
                  /\ ENABLED RouteSkip(t, "raise")
                  /\ Len(heap) < MaxObjs =>
                       \A d \in DevicesOf(s) : ENABLED RouteDevice(t, d))
  /\ [][\A t \in Threads :
          (thr[t].pc = "prn" /\ ~Handed(scanners[thr[t].i], thr[t].frame)
             /\ thr'[t] # thr[t]) =>
            /\ devices' = devices /\ heap' = heap /\ lock' = lock
            /\ mergeLog' = mergeLog /\ notifyLog' = notifyLog
            /\ thr'[t].pc \in {"prn", "stop_filter"}
            /\ thr'[t].pc = "prn" => thr'[t].log = Append(thr[t].log, "None")]_vars

\* C20 witness: the first scanner has ignored a frame neither port of which is
\* its own, and the second scanner, whose port is the frame's destination
\* port only, has decoded a Device from it
C20_Witness ==
  \E t \in Threads :
    /\ thr[t].pc = "enter" /\ thr[t].i = 2 /\ thr[t].dev # 0
    /\ thr[t].log = <<"None">>
    /\ thr[t].frame.sport # port(scanners[1]) /\ thr[t].frame.dport # port(scanners[1])
    /\ thr[t].frame.sport # port(scanners[2]) /\ thr[t].frame.dport = port(scanners[2])

\* ---- claims about the decoders --------------------------------------------
\* the TLVs that lie whole in data, in their order: what _parse_tlv gets to
\* see of it
RECURSIVE FullTlvs(_, _)
FullTlvs(s, data) ==
  IF Len(data) < header(s) THEN <<>>
  ELSE LET n == tlv_len_at(s, data, 0)
       IN IF header(s) + n > Len(data) THEN <<>>
          ELSE << [type |-> tlv_type_at(s, data, 0),
                   value |-> SubSeq(data, header(s) + 1, header(s) + n)] >>
               \o FullTlvs(s, SubSeq(data, header(s) + n + 1, Len(data)))

\* the TLVs of a payload: a Ubiquiti payload has them from offset 4
PayloadTlvs(s, payload) ==
  FullTlvs(s, IF s = "ubnt" THEN Slice(payload, 4, Len(payload)) ELSE payload)

TypesIn(s, payload) ==
  { PayloadTlvs(s, payload)[i].type : i \in 1..Len(PayloadTlvs(s, payload)) }

Returned(t) == thr[t].pc = "returned"
ReturnedDevice(t) == thr[t].pc = "returned" /\ thr[t].out # None
Accepted(t) == "device" \in parse_packet(thr[t].s, thr[t].frame)

\* C21: a Ubiquiti payload without a MAC TLV (0x01) and without a MAC+IP TLV
\* (0x02), and an MNDP payload of less than 4 bytes or without a MAC TLV
\* (0x0001), make parse_packet return None; the mac of a returned Device is
\* never empty.
C21_MacMandatory ==
  \A t \in Threads : Returned(t) =>
    /\ ( /\ thr[t].s = "ubnt"
         /\ TypesIn("ubnt", thr[t].frame.payload)
              \cap {UBNT_TLV_MAC_ADDRESS, UBNT_TLV_IP_INFO} = {} )
         => thr[t].out = None
    /\ ( /\ thr[t].s = "mndp"
         /\ \/ Len(thr[t].frame.payload) < 4
            \/ MNDP_TLV_MAC_ADDRESS \notin TypesIn("mndp", thr[t].frame.payload) )
         => thr[t].out = None
    /\ thr[t].out # None => thr[t].out[1].mac # <<>>

\* a payload whose TLVs were decoded, the hostname among them, and that has
\* no MAC: nothing is returned
C21_Witness ==
  \E t \in Threads :
    /\ Returned(t) /\ thr[t].out = None
    /\ "hostname" \in DOMAIN thr[t].tlv.result
    /\ "mac" \notin DOMAIN thr[t].tlv.result

\* the loop of _parse_tlv has ended on a TLV that runs past the data
Overrun(t) ==
  /\ thr[t].pc \in {"fields", "returned"}
  /\ ~thr[t].tlv.looping
  /\ thr[t].tlv.offset + header(thr[t].s) <= Len(thr[t].data)

\* C22: when a TLV's declared length runs past the data, the loop stops there
\* and the result is the result of parsing the data cut off where that TLV
\* starts; with a MAC in it, a Device with that MAC is returned.
C22_SoftStop ==
  \A t \in Threads : Overrun(t) =>
    /\ thr[t].tlv.result
         = parse_tlv(thr[t].s, Slice(thr[t].data, 0, thr[t].tlv.offset))
    /\ (Returned(t) /\ "mac" \in DOMAIN thr[t].tlv.result)
         => /\ thr[t].out # None
            /\ thr[t].out[1].mac = thr[t].tlv.result["mac"]

\* a Device is returned from a payload whose last TLV runs past the end
C22_Witness ==
  \E t \in Threads :
    /\ Overrun(t) /\ ReturnedDevice(t)
    /\ thr[t].tlv.offset > 0
    /\ Len(FullTlvs(thr[t].s, thr[t].data)) >= 2

\* the indicators of a Mikrotik device
C23_Indicators ==
  { "routerboard", "rb", "ccr", "crs", "css", "hex", "hap", "mikrotik", "routeros",
    "chr", "ltap", "wap", "disc", "sxt", "lhg", "basebox", "netbox", "netmetal",
    "powerbox" }

\* the brand that goes with the text c
BrandIn(c) ==
  IF contains(Chars("mimosa"), c) THEN "Mimosa"
  ELSE IF \E w \in C23_Indicators : contains(Chars(w), c) THEN "Mikrotik"
  ELSE "Mikrotik/MNDP"

PlatformOf(t) == dict_get(thr[t].tlv.result, "platform", <<>>)
BoardOf(t) == dict_get(thr[t].tlv.result, "board", <<>>)

\* C23 as stated: the brand of an MNDP Device is the brand that goes with the
\* lower-cased concatenation of platform and board.
C23_BrandOfConcatenation ==
  \A t \in Threads : (ReturnedDevice(t) /\ thr[t].s = "mndp") =>
    thr[t].out[1].brand = BrandIn(lower(PlatformOf(t) \o BoardOf(t)))

\* C23: the brand of an MNDP Device is the brand that goes with the
\* lower-cased platform, a space, and the board: "Mimosa" if it contains
\* "mimosa", else "Mikrotik" if it contains an indicator, else
\* "Mikrotik/MNDP"; the platforms "RouterBOARD 951", "Mimosa B5" and
\* "SomeVendor" without a board give "Mikrotik", "Mimosa" and "Mikrotik/MNDP".
C23_BrandOfPlatformSpaceBoard ==
  \A t \in Threads : (ReturnedDevice(t) /\ thr[t].s = "mndp") =>
    /\ thr[t].out[1].brand = BrandIn(lower(PlatformOf(t) \o <<" ">> \o BoardOf(t)))
    /\ BoardOf(t) = <<>> =>
         /\ PlatformOf(t) = Chars("RouterBOARD 951") => thr[t].out[1].brand = "Mikrotik"
         /\ PlatformOf(t) = Chars("Mimosa B5") => thr[t].out[1].brand = "Mimosa"
         /\ PlatformOf(t) = Chars("SomeVendor") => thr[t].out[1].brand = "Mikrotik/MNDP"

\* a platform of Mimosa with a board of Mikrotik is a Mimosa
C23_Witness ==
  \E t \in Threads :
    /\ ReturnedDevice(t) /\ thr[t].s = "mndp"
    /\ PlatformOf(t) = Chars("Mimosa B5") /\ BoardOf(t) = Chars("hAP")
    /\ thr[t].out[1].brand = "Mimosa"

\* the two MACs as text
MacTextA == Chars("AA:BB:CC:DD:EE:FF")
MacTextB == Chars("00:1B:2C:3D:4E:5F")
MacTextOf(m) == IF m = MacBytesA THEN MacTextA ELSE MacTextB

\* what is encoded, with the payload it makes
RoundTrips ==
  { [mac |-> m, hostname |-> h, uptime |-> u, payload |-> ubnt_encode(m, h, u)] :
      m \in EncodedMacs, h \in EncodedHostnames, u \in EncodedUptimes }

AddressText(four) ==
  IF four = <<192, 168, 1, 20>> THEN Chars("192.168.1.20")
  ELSE IF four = <<10, 0, 0, 2>> THEN Chars("10.0.0.2")
  ELSE ip_str(four)

\* the addresses of the TLVs of a payload that carry one, in their order
RECURSIVE AddressesIn(_, _)
AddressesIn(s, tlvs) ==
  IF Len(tlvs) = 0 THEN <<>>
  ELSE (IF s = "ubnt" /\ tlvs[1].type = UBNT_TLV_IP_INFO /\ Len(tlvs[1].value) >= 10
        THEN << AddressText(SubSeq(tlvs[1].value, 7, 10)) >>
        ELSE IF s = "mndp" /\ tlvs[1].type = MNDP_TLV_IPV4 /\ Len(tlvs[1].value) >= 4
        THEN << AddressText(SubSeq(tlvs[1].value, 1, 4)) >>
        ELSE <<>>)
       \o AddressesIn(s, Tail(tlvs))

\* C25: the ip of a returned Device is the address of the payload's (last)
\* TLV that carries one (Ubiquiti 0x02 bytes 6..9, MNDP 0x0014), the source
\* address of the packet if there is none, and never empty.
C25_IpSelection ==
  \A t \in Threads : ReturnedDevice(t) =>
    LET as == AddressesIn(thr[t].s, PayloadTlvs(thr[t].s, thr[t].frame.payload))
    IN /\ thr[t].out[1].ip = IF Len(as) > 0 THEN as[Len(as)] ELSE thr[t].frame.src
       /\ thr[t].out[1].ip # <<>>

\* a Device from a payload whose address TLV is too short to carry an
\* address has the source address of the packet
C25_Witness ==
  \E t \in Threads :
    /\ ReturnedDevice(t) /\ thr[t].s = "mndp"
    /\ MNDP_TLV_IPV4 \in TypesIn("mndp", thr[t].frame.payload)
    /\ thr[t].out[1].ip = PacketSource

\* the places of the TLVs of type ty
PlacesOf(tlvs, ty) == { i \in 1..Len(tlvs) : tlvs[i].type = ty }
Least(S) == CHOOSE i \in S : \A j \in S : i <= j
Greatest(S) == CHOOSE i \in S : \A j \in S : j <= i

\* C26: the model of a Ubiquiti Device is the value of the last full-model
\* TLV (0x14) of the payload, wherever the short-model TLVs (0x0C) are; a
\* short model is the model only without a full model, and then the first.
C26_ModelPrecedence ==
  \A t \in Threads : (ReturnedDevice(t) /\ thr[t].s = "ubnt") =>
    LET tlvs == PayloadTlvs("ubnt", thr[t].frame.payload)
        full == PlacesOf(tlvs, UBNT_TLV_MODEL_FULL)
        short == PlacesOf(tlvs, UBNT_TLV_MODEL_SHORT)
    IN /\ full # {} => thr[t].out[1].model = text(tlvs[Greatest(full)].value)
       /\ (full = {} /\ short # {}) => thr[t].out[1].model = text(tlvs[Least(short)].value)
       /\ (full = {} /\ short = {}) => thr[t].out[1].model = <<>>

\* a short model after the full model
C26_Witness ==
  \E t \in Threads :
    /\ ReturnedDevice(t) /\ thr[t].s = "ubnt"
    /\ LET tlvs == PayloadTlvs("ubnt", thr[t].frame.payload)
       IN \E i, j \in 1..Len(tlvs) :
            /\ i < j
            /\ tlvs[i].type = UBNT_TLV_MODEL_FULL
            /\ tlvs[j].type = UBNT_TLV_MODEL_SHORT
            /\ thr[t].out[1].model = text(tlvs[i].value)

\* C27: on every payload the decoders come to an end with a Device or None:
\* each pass of the TLV loop moves the offset on by at least the header (3
\* bytes for Ubiquiti, 4 for MNDP) and not past the data, and a decoder in
\* the loop returns.
C27_Terminates ==
  /\ [][ \A t \in Threads : (thr[t].pc = "tlv" /\ thr'[t].pc = "tlv") =>
           /\ thr'[t].tlv.offset >= thr[t].tlv.offset + header(thr[t].s)
           /\ thr'[t].tlv.offset <= Len(thr[t].data) ]_vars
  /\ [](\A t \in Threads : Returned(t) =>
           \/ thr[t].out = None
           \/ Len(thr[t].out) = 1 /\ thr[t].out[1].mac # <<>>)
  /\ \A t \in Threads : (thr[t].pc = "tlv") ~> Returned(t)

\* the loop is past one TLV and at a TLV of length zero
C27_Witness ==
  \E t \in Threads :
    /\ thr[t].pc = "tlv"
    /\ thr[t].tlv.offset > 0
    /\ thr[t].tlv.offset + header(thr[t].s) <= Len(thr[t].data)
    /\ tlv_len_at(thr[t].s, thr[t].data, thr[t].tlv.offset) = 0

\* ---- claims about errors, stopping and clearing ----------------------------
\* a thread whose last notification callback raised
Raised(t) == Len(thr[t].log) > 0 /\ thr[t].log[Len(thr[t].log)] = "callback raised"

\* C28: an exception of the notification callback ends neither the capture
\* loop nor the router's loop: the thread goes on as after a return, the lock
\* is free, and the map and the stored records are as the callback saw them,
\* the sighting's key in the map.
C28_CallbackErrorAbsorbed ==
  [][ \A t \in Threads : CallbackRaises(t) =>
        /\ thr'[t].pc = AfterScanner(thr[t], "device").pc
        /\ thr'[t].pc \in {"prn", "stop_filter"}
        /\ Raised(t)'
        /\ lock' = [owner |-> NoOwner, count |-> 0]
        /\ devices' = devices
        /\ \A i \in 1..Len(devices) : heap'[devices[i].obj] = heap[devices[i].obj]
        /\ Upper(mergeLog[thr[t].call].mac) \in Keys(devices') ]_vars

\* after a callback that raised the thread waits for the next frame, with
\* the lock free and the device of the sighting in the map
C28_Witness ==
  \E t \in Threads :
    /\ Raised(t) /\ thr[t].pc = "sniff"
    /\ lock.owner = NoOwner
    /\ Len(devices) > 0
    /\ Len(notifyLog) > 0

\* C29: while _running is false no frame is handed to the scanners, the
\* capture threads add no sighting to the map and no notification is made.
C29_QuietAfterStop ==
  [][ ~running =>
        /\ \A t \in Threads : thr'[t].pc = "prn" => thr[t].pc = "prn"
        /\ Len(mergeLog') <= Len(mergeLog)
        /\ Len(notifyLog') <= Len(notifyLog) ]_vars

\* the heap objects other than o that carry the MAC of o and are not on
\* their way into the map: records of that MAC the map held before
SameMac(o) ==
  { q \in 1..Len(heap) : /\ q # o
                           /\ heap[q].mac # <<>>
                           /\ Upper(heap[q].mac) = Upper(heap[o].mac)
                           /\ \A u \in Threads : thr[u].dev # q }

\* C30: clear_devices does not run while a thread is between the lookup and
\* the update of a sighting; a sighting whose key the map does not hold (the
\* first after a clear) stores the decoded Device itself, with the
\* discovered_at of its decoding and not a record of that MAC from before
\* the clear, and makes the new-device notification with it if the callback
\* is set, and no other.
C30_ClearInterleaves ==
  /\ [][ clear_devices => \A t \in Threads : thr[t].pc # "upd_ip" ]_vars
  /\ [][ \A t \in Threads :
           (OnDiscoveredEnter(t) /\ unique_id(heap[thr[t].dev]) \notin Keys(devices)) =>
             /\ Lookup(devices', unique_id(heap[thr[t].dev])) = thr[t].dev
             /\ Len(devices') = Len(devices) + 1
             /\ heap'[thr[t].dev] = heap[thr[t].dev]
             /\ mergeLog'[Len(mergeLog')].at = heap[thr[t].dev].discovered_at
             /\ IF cbNew
                THEN /\ Len(notifyLog') = Len(notifyLog) + 1
                     /\ notifyLog'[Len(notifyLog')].kind = "new"
                     /\ notifyLog'[Len(notifyLog')].arg = thr[t].dev
                ELSE notifyLog' = notifyLog ]_vars

\* a MAC sighted, cleared and sighted again: the map holds the second
\* object, the first is still there, and the one notification since the
\* clear is the new-device one
C30_Witness ==
  \E i \in 1..Len(devices) :
    /\ SameMac(devices[i].obj) # {}
    /\ \A q \in SameMac(devices[i].obj) :
         /\ q \notin Stored
         /\ heap[q].discovered_at < heap[devices[i].obj].discovered_at
    /\ Len(notifyLog) = 1
    /\ notifyLog[1].kind = "new"
    /\ notifyLog[1].arg = devices[i].obj

====
